---- MODULE Spec2Model ----
(***************************************************************************)
(* A model of the CDLOD terrain renderer: the grid mesh (GridMesh in        *)
(* src/src/engine/collision/plane.h), the height map's fetches and area    *)
(* query (src/src/engine/height_map.h), the LOD quadtree selector's        *)
(* per-frame pass, the shadow cascade stack (src/include/shadow.hpp) with  *)
(* Terrain::render (src/src/terrain.cc), oglwrap's LazyUniform             *)
(* (src/include/oglwrap/uniform.hpp), and the GameObject tree's            *)
(* dispatchers (src/src/engine/game_object.cc).                            *)
(*                                                                         *)
(* The specifications of the module:                                       *)
(*   Spec        the GridMesh object: construction, setupPositions, render *)
(*   IndexSpec   GridMesh::indexOf over the whole GLubyte dimension range  *)
(*   HeightSpec  a height map and its getMinMaxOfArea queries              *)
(*   SampleSpec  a height map and its interpolated heightAt fetches        *)
(*   SelectSpec  one frame's top-down walk of the LOD quadtree             *)
(*   FrameSpec   a Shadow's cascade stack and Terrain::render              *)
(*   UniformSpec LazyUniform objects of one program and their Set calls    *)
(*   ObjectSpec  a tree of GameObjects, its pending sets and dispatches    *)
(***************************************************************************)
EXTENDS Integers, Sequences, FiniteSets, TLC

\* ------------------------------------------------------------------------
\* Bounds of the model
\* ------------------------------------------------------------------------

\* Largest dimension handed to setupPositions in Spec (the buffers of a
\* larger mesh are built the same way, only longer).
MaxDim == 6

\* Largest width of a height map in HeightSpec.
MaxW == 2

\* The heights of the height maps in HeightSpec: no row or one row. With
\* one row the queries still meet rows inside and outside the map.
MapRows == {0, 1}

\* Largest texel value of a height map in HeightSpec.
MaxHeight == 1

\* Largest w and h handed to getMinMaxOfArea in HeightSpec.
MaxExt == 2

\* SampleSpec hands heightAt(double, double) the coordinates that are
\* multiples of 1 / 2^SubDivBits.
SubDivBits == 2

\* The maximum configured depth of the quadtree in SelectSpec: the root is
\* level 0, the finest nodes are level MaxLevel.
MaxLevel == 2

\* The factors by which a level's range exceeds its node size in SelectSpec.
RangeFactors == {1, 2}

\* Largest depth (number of cascades) a Shadow is constructed with in
\* FrameSpec.
MaxDepth == 3

\* The matrices modelCamProjMat stores in FrameSpec; 0 stands for the
\* default-constructed matrix of a fresh slot.
Matrices == {1, 2}

\* The number of LazyUniform objects of one GLtype in UniformSpec, the
\* number of Set calls followed per object, and the largest value set.
NumUniforms == 2
MaxSets == 3
MaxValue == 1

\* The GameObject tree of ObjectSpec, as the parent of each object (0: none):
\* a root, its component, and that component's component.
Parents == <<0, 1, 2>>

\* The addresses the objects of ObjectSpec may be allocated at, per object.
\* Only their order counts, and only between objects that share a container
\* (an object and its component), so there is one layout for each way of
\* ordering the root and its component, and that component and its own.
Layouts == { <<1, 2, 3>>, <<1, 3, 2>>, <<2, 1, 3>>, <<3, 2, 1>> }

\* The largest number of entries the pending containers of ObjectSpec hold
\* together, and the size of the window (any other size will do for the
\* argument of a screenResizedAll that does not pass the window's).
MaxPending == 2
WindowSize == 2

\* The <<w, h>> of the height maps of SampleSpec: one texel, a full cell,
\* and a row and a column with an interior integer coordinate.
SampleSizes == { <<1, 1>>, <<2, 2>>, <<3, 1>>, <<1, 3>> }

\* ------------------------------------------------------------------------
\* Constants of the program
\* ------------------------------------------------------------------------

\* Largest value of a GLubyte, the type of setupPositions' dim parameter.
GLubyteMax == 255

\* Number of values of a GLushort, the type of an index.
GLushortRange == 65536

\* Number of values of a short, the component type of svec2.
ShortRange == 65536

\* ------------------------------------------------------------------------
\* State
\* ------------------------------------------------------------------------
VARIABLES
  dimension_,            \* GridMesh::dimension_ (GLubyte)
  subquad_index_start_,  \* GridMesh::subquad_index_start_[4], counted in GLushort elements
                         \* once assigned
  positions_,            \* contents of the vertex buffer, a sequence of <<x, y>>
  indices_,              \* contents of the index buffer, a sequence of GLushort
  req,                   \* arguments of the last operation if it was a render
  calls,                 \* drawSubquad calls of the last operation: <<quad_num, start_quad_idx>>
  draws                  \* DrawElements calls of the last operation: [count, start]

meshVars == <<dimension_, subquad_index_start_, positions_, indices_, req, calls, draws>>

VARIABLES
  idx_in,                \* IndexSpec: the dimension, sub-quad and vertex row y under test
  idx_out                \* IndexSpec: the values of indexOf on that row; <<>> before the step

idxVars == <<idx_in, idx_out>>

VARIABLES
  tex_,                  \* HeightMap::tex_: [w, h, data], data[<<x, y>>] the texel at (x, y)
  hm_prev,               \* the getMinMaxOfArea call before the last one, with its result
  hm_last                \* the last getMinMaxOfArea call, with its result

hmVars == <<tex_, hm_prev, hm_last>>

VARIABLES
  bl_prev,               \* the heightAt(double, double) call before the last one, with its result
  bl_last                \* the last heightAt(double, double) call, with its result

blVars == <<bl_prev, bl_last>>

VARIABLES
  qt_in,                 \* the camera and frustum of the frame being traversed
  qt_stack,              \* quadtree nodes still to be visited, next one first
  qt_visited,            \* the nodes visited so far, in order, each with its box and decision
  qt_draws               \* the grid mesh draws of the frame: [node, calls]

qtVars == <<qt_in, qt_stack, qt_visited, qt_draws>>

VARIABLES
  has_shadow,            \* the scene has a Shadow object (scene_->shadow() is not null)
  max_depth_,            \* Shadow::max_depth_
  curr_depth_,           \* Shadow::curr_depth_
  cp_matrices_,          \* Shadow::cp_matrices_: slot index -> matrix
  fbo_bound,             \* the bound framebuffer: the index i of fbo_[i], or DefaultFbo
  sized,                 \* Shadow::resize has set w_ and h_
  viewport,              \* the area the last glViewport call selected
  crashed,               \* the process was killed by an access outside a vector
  sh_open,               \* a begin() has not been followed by an end() yet
  sh_written,            \* the slots modelCamProjMat wrote since the last begin()
  sh_pushes,             \* the successful push() calls since the last begin(); -1: none yet
  sh_last                \* the last Shadow operation and the state it started from

shVars == <<has_shadow, max_depth_, curr_depth_, cp_matrices_, fbo_bound, sized, viewport,
            crashed, sh_open, sh_written, sh_pushes, sh_last>>

VARIABLES
  tr_units,              \* the texture bound to each of the texture units 2..5
  tr_log                 \* the GL calls of the last Terrain::render, in order

trVars == <<tr_units, tr_log>>

VARIABLES
  firstCall,             \* LazyUniform<GLtype>::Set's static bool, shared by all objects
  location,              \* UniformObject::location of each LazyUniform object
  linked,                \* the program of the uniforms has been linked
  active,                \* the program is the current one (Program::Use)
  values,                \* the value of each uniform variable in the program
  lu_sets,               \* per object, the number of Set calls made
  lu_queries,            \* per object, the number of glGetUniformLocation calls its Sets made
  lu_errors              \* the number of messages written to stderr

luVars == <<firstCall, location, linked, active, values, lu_sets, lu_queries, lu_errors>>

VARIABLES
  sorted_components_,        \* per GameObject, GameObject::sorted_components_
  components_just_enabled_,  \* per GameObject, GameObject::components_just_enabled_
  components_just_disabled_, \* per GameObject, GameObject::components_just_disabled_
  window,                    \* the size glfwGetWindowSize reports
  go_pass,                   \* the dispatch in progress on the root object, if any
  go_log,                    \* the calls the dispatch in progress has made, in order
  go_prev,                   \* the three containers when the dispatch in progress started
  address                    \* per GameObject, where it was allocated: the value of a pointer to it

goVars == <<sorted_components_, components_just_enabled_, components_just_disabled_,
            window, go_pass, go_log, go_prev, address>>

vars == <<meshVars, idxVars, hmVars, blVars, qtVars, shVars, trVars, luVars, goVars>>

\* ------------------------------------------------------------------------
\* Helpers
\* ------------------------------------------------------------------------

RECURSIVE Flatten(_)
\* Concatenation of a sequence of sequences, in order (successive push_back).
Flatten(ss) == IF ss = <<>> THEN <<>> ELSE Head(ss) \o Flatten(Tail(ss))

\* Conversion of an int to GLubyte.
ToGLubyte(v) == v % (GLubyteMax + 1)

\* Conversion of an int to GLushort.
ToGLushort(v) == v % GLushortRange

\* Conversion of an int to short (two's complement).
ToShort(v) == ((v + ShortRange \div 2) % ShortRange) - ShortRange \div 2

\* C++ integer division of a non-negative int by 2.
Half(v) == v \div 2

\* The sign pairs in the order of the two outer loops:
\* for ysign in (-1, 1), for xsign in (-1, 1); entry sub_quad+1 is <<xsign, ysign>>.
SignsOf == << <<-1, -1>>, <<1, -1>>, <<-1, 1>>, <<1, 1>> >>

\* ------------------------------------------------------------------------
\* GridMesh
\* ------------------------------------------------------------------------

\* An indexOf that leaves out the sub-quad's vertex block offset.
indexOfInt_NoOffs(dim, sub_quad, x, y) ==
  LET dim2 == ToGLubyte(Half(dim))
  IN  (dim2 + 1) * y + x

\* GridMesh::indexOf before the conversion of the return value to GLushort.
indexOfInt(dim, sub_quad, x, y) ==
  LET dim2 == ToGLubyte(Half(dim))
      sub_quad_vertex_cnt == (dim2 + 1) * (dim2 + 1)
      sub_quad_offs == sub_quad * sub_quad_vertex_cnt
  IN  sub_quad_offs + (dim2 + 1) * y + x

\* An indexOf whose return type is GLubyte.
indexOf_Byte(dim, sub_quad, x, y) == ToGLubyte(indexOfInt(dim, sub_quad, x, y))

\* GridMesh::indexOf for a mesh whose dimension_ is dim.
indexOf(dim, sub_quad, x, y) == ToGLushort(indexOfInt(dim, sub_quad, x, y))

\* A vertex whose column and row are exchanged.
svec2_Transposed(xsign, ysign, x, y) == <<ToShort(xsign * y), ToShort(ysign * x)>>

\* The svec2 pushed for vertex (x, y) of the sub-quad with the given signs.
svec2(xsign, ysign, x, y) == <<ToShort(xsign * x), ToShort(ysign * y)>>

\* The positions pushed by the two inner loops for one (ysign, xsign).
SubquadPositions(dim, xsign, ysign) ==
  LET dim2 == ToGLubyte(Half(dim))
  IN  Flatten([yy \in 1..(dim2 + 1) |->
               [xx \in 1..(dim2 + 1) |-> svec2(xsign, ysign, xx - 1, yy - 1)]])

\* The positions vector built by the first loop nest of setupPositions.
BuildPositions(dim) ==
  Flatten([q \in 1..4 |-> SubquadPositions(dim, SignsOf[q][1], SignsOf[q][2])])

\* A cell whose triangles keep one vertex order whatever the signs.
CellIndices_NoFlip(dim, sub_quad, xsign, ysign, x, y) ==
  << indexOf(dim, sub_quad, x, y),
     indexOf(dim, sub_quad, x, y + 1),
     indexOf(dim, sub_quad, x + 1, y),
     indexOf(dim, sub_quad, x + 1, y),
     indexOf(dim, sub_quad, x, y + 1),
     indexOf(dim, sub_quad, x + 1, y + 1) >>

\* The six indices pushed for cell (x, y) of sub_quad.
CellIndices(dim, sub_quad, xsign, ysign, x, y) ==
  IF xsign * ysign > 0
  THEN << indexOf(dim, sub_quad, x, y),
          indexOf(dim, sub_quad, x, y + 1),
          indexOf(dim, sub_quad, x + 1, y),
          indexOf(dim, sub_quad, x + 1, y),
          indexOf(dim, sub_quad, x, y + 1),
          indexOf(dim, sub_quad, x + 1, y + 1) >>
  ELSE << indexOf(dim, sub_quad, x, y),
          indexOf(dim, sub_quad, x + 1, y + 1),
          indexOf(dim, sub_quad, x, y + 1),
          indexOf(dim, sub_quad, x, y),
          indexOf(dim, sub_quad, x + 1, y),
          indexOf(dim, sub_quad, x + 1, y + 1) >>

\* Inner loops that push the cells of row 0 for every row.
SubquadIndices_RowZero(dim, sub_quad) ==
  LET dim2 == ToGLubyte(Half(dim))
      xsign == SignsOf[sub_quad + 1][1]
      ysign == SignsOf[sub_quad + 1][2]
  IN  Flatten([yy \in 1..dim2 |->
               Flatten([xx \in 1..dim2 |->
                        CellIndices(dim, sub_quad, xsign, ysign, xx - 1, 0)])])

\* The indices pushed by the two inner loops for one sub_quad.
SubquadIndices(dim, sub_quad) ==
  LET dim2 == ToGLubyte(Half(dim))
      xsign == SignsOf[sub_quad + 1][1]
      ysign == SignsOf[sub_quad + 1][2]
  IN  Flatten([yy \in 1..dim2 |->
               Flatten([xx \in 1..dim2 |->
                        CellIndices(dim, sub_quad, xsign, ysign, xx - 1, yy - 1)])])

RECURSIVE IndicesUpTo(_, _)
\* The indices vector once the sub-quads 0 .. n-1 have been pushed.
IndicesUpTo(dim, n) ==
  IF n = 0 THEN <<>> ELSE IndicesUpTo(dim, n - 1) \o SubquadIndices(dim, n - 1)

\* The indices vector built by the second loop nest of setupPositions.
BuildIndices(dim) == IndicesUpTo(dim, 4)

\* subquad_index_start_ as the second loop nest records it: indices.size()
\* at the moment sub_quad's loop begins.
BuildIndexStart(dim) == [q \in 0..3 |-> Len(IndicesUpTo(dim, q))]

\* A drawSubquad whose sub_quad_size is not halved.
drawSubquad_Unhalved(quad_num, start_quad_idx) ==
  LET sub_quad_size == 3 * dimension_ * dimension_
  IN  [count |-> quad_num * sub_quad_size,
       start |-> subquad_index_start_[start_quad_idx]]

\* GridMesh::drawSubquad: the DrawElements call it issues.
drawSubquad(quad_num, start_quad_idx) ==
  LET sub_quad_size == (3 * dimension_ * dimension_) \div 2
  IN  [count |-> quad_num * sub_quad_size,
       start |-> subquad_index_start_[start_quad_idx]]

\* A render that issues one drawSubquad per requested sub-quad.
renderTree_PerQuad(q0, q1, q2, q3) ==
  (IF q0 THEN << <<1, 0>> >> ELSE <<>>) \o (IF q1 THEN << <<1, 1>> >> ELSE <<>>) \o
  (IF q2 THEN << <<1, 2>> >> ELSE <<>>) \o (IF q3 THEN << <<1, 3>> >> ELSE <<>>)

\* The decision tree of GridMesh::render over its locals _0, _1, _2, _3
\* (q0..q3 here): the drawSubquad calls it makes, in order, each as
\* <<quad_num, start_quad_idx>>.
renderTree(q0, q1, q2, q3) ==
  IF q3 THEN
    IF q2 THEN
      IF q1 THEN
        IF q0 THEN << <<4, 0>> >>
              ELSE << <<3, 1>> >>
      ELSE
        IF q0 THEN << <<1, 0>>, <<2, 2>> >>
              ELSE << <<2, 2>> >>
    ELSE
      IF q1 THEN
        IF q0 THEN << <<2, 0>>, <<1, 3>> >>
              ELSE << <<1, 1>>, <<1, 3>> >>
      ELSE
        IF q0 THEN << <<1, 0>>, <<1, 3>> >>
              ELSE << <<1, 3>> >>
  ELSE
    IF q2 THEN
      IF q1 THEN
        IF q0 THEN << <<3, 0>> >>
              ELSE << <<2, 1>> >>
      ELSE
        IF q0 THEN << <<1, 0>>, <<1, 2>> >>
              ELSE << <<1, 2>> >>
    ELSE
      IF q1 THEN
        IF q0 THEN << <<2, 0>> >>
              ELSE << <<1, 1>> >>
      ELSE
        IF q0 THEN << <<1, 0>> >>
              ELSE <<>>

\* A render that reads its arguments as (bl, br, tl, tr).
renderCalls_ArgOrder(tl, tr, bl, br) == renderTree(tl, tr, bl, br)

\* GridMesh::render: bool _0 = bl, _1 = br, _2 = tl, _3 = tr, then the tree.
renderCalls(tl, tr, bl, br) == renderTree(bl, br, tl, tr)

\* The value of req when the last operation was not a render.
NoRequest == [rendered |-> FALSE, tl |-> FALSE, tr |-> FALSE, bl |-> FALSE, br |-> FALSE]

\* An entry of subquad_index_start_ that was never assigned: a GLushort* of
\* indeterminate value, any of the 2^64 bit patterns the object's storage
\* held before. It is no element offset, so it is kept apart from the
\* numbers; a DrawElements call made with it carries it as its start.
Indeterminate == "indeterminate"

\* GridMesh::GridMesh(): the constructor initialises dimension_ only, and
\* the buffers hold no data.
MeshInit ==
  /\ dimension_ = 0
  /\ subquad_index_start_ = [q \in 0..3 |-> Indeterminate]
  /\ positions_ = <<>>
  /\ indices_ = <<>>
  /\ req = NoRequest
  /\ calls = <<>>
  /\ draws = <<>>

\* GridMesh::setupPositions(attrib, dim)
setupPositions(dim) ==
  /\ dimension_' = ToGLubyte(dim)
  /\ positions_' = BuildPositions(ToGLubyte(dim))
  /\ indices_' = BuildIndices(ToGLubyte(dim))
  /\ subquad_index_start_' = BuildIndexStart(ToGLubyte(dim))
  /\ req' = NoRequest
  /\ calls' = <<>>
  /\ draws' = <<>>
  /\ UNCHANGED <<idxVars, hmVars, blVars, qtVars, shVars, trVars, luVars, goVars>>

\* GridMesh::render(tl, tr, bl, br)
render(tl, tr, bl, br) ==
  /\ req' = [rendered |-> TRUE, tl |-> tl, tr |-> tr, bl |-> bl, br |-> br]
  /\ calls' = renderCalls(tl, tr, bl, br)
  /\ draws' = [k \in 1..Len(renderCalls(tl, tr, bl, br)) |->
                 drawSubquad(renderCalls(tl, tr, bl, br)[k][1],
                             renderCalls(tl, tr, bl, br)[k][2])]
  /\ UNCHANGED <<dimension_, subquad_index_start_, positions_, indices_>>
  /\ UNCHANGED <<idxVars, hmVars, blVars, qtVars, shVars, trVars, luVars, goVars>>

SetupStep == \E dim \in 0..MaxDim : setupPositions(dim)

RenderStep == \E tl \in BOOLEAN, tr \in BOOLEAN, bl \in BOOLEAN, br \in BOOLEAN :
                render(tl, tr, bl, br)

\* ------------------------------------------------------------------------
\* GridMesh::indexOf over every GLubyte dimension (IndexSpec)
\* ------------------------------------------------------------------------

\* No row under test.
IdxIdle ==
  /\ idx_in = [dim |-> 0, sub_quad |-> 0, y |-> 0]
  /\ idx_out = <<>>

\* The arguments on which setupPositions(dim) calls indexOf, row by row:
\* the corners (x, y), (x+1, y), (x, y+1), (x+1, y+1) of every cell
\* 0 <= x, y < dim2 of every sub_quad 0..3, which are the vertices
\* 0 <= x, y <= dim2 (for dim2 = 0 it makes no call; the one vertex of each
\* sub-quad is kept among the inputs).
IdxInputs ==
  { r \in [dim : 0..GLubyteMax, sub_quad : 0..3, y : 0..Half(GLubyteMax)] :
      r.y <= ToGLubyte(Half(r.dim)) }

\* indexOf applied to the vertices x = 0 .. dim2 of row y of sub_quad:
\* entry x+1 is the GLushort returned for (sub_quad, x, y).
RowIndices(dim, sub_quad, y) ==
  [xx \in 1..(ToGLubyte(Half(dim)) + 1) |-> indexOf(dim, sub_quad, xx - 1, y)]

\* indexOf applied to the row under test.
IndexRow ==
  /\ idx_out = <<>>
  /\ idx_out' = RowIndices(idx_in.dim, idx_in.sub_quad, idx_in.y)
  /\ UNCHANGED <<idx_in, meshVars, hmVars, blVars, qtVars, shVars, trVars, luVars, goVars>>

\* ------------------------------------------------------------------------
\* HeightMap and HeightMapInterface::getMinMaxOfArea (HeightSpec)
\* ------------------------------------------------------------------------

\* HeightMap::w
w == tex_.w

\* HeightMap::h
h == tex_.h

\* HeightMap::valid: the coordinates are inside the texture.
valid(x, y) == 0 <= x /\ x < w /\ 0 <= y /\ y < h

\* HeightMap::heightAt(int x, int y)
heightAt(x, y) == tex_.data[<<x, y>>]

\* The least and the greatest element of a non-empty set of numbers.
SetMin(S) == CHOOSE m \in S : \A v \in S : m <= v
SetMax(S) == CHOOSE m \in S : \A v \in S : m >= v

\* An area query that spans from the centre to the upper corner only.
getMinMaxOfArea_HalfSpan(x, y, aw, ah) ==
  LET samples == { heightAt(i, j) : <<i, j>> \in
                     { c \in (x..(x + aw \div 2)) \X (y..(y + ah \div 2)) : valid(c[1], c[2]) } }
  IN  IF samples = {} THEN [min |-> 0, max |-> 0]
      ELSE [min |-> SetMin(samples), max |-> SetMax(samples)]

\* An area query that returns its untouched accumulators when it met no
\* valid sample.
getMinMaxOfArea_NoSentinel(x, y, aw, ah) ==
  LET samples == { heightAt(i, j) : <<i, j>> \in
                     { c \in ((x - aw \div 2)..(x + aw \div 2)) \X
                             ((y - ah \div 2)..(y + ah \div 2)) : valid(c[1], c[2]) } }
  IN  IF samples = {} THEN [min |-> MaxHeight + 1, max |-> 0 - 1]
      ELSE [min |-> SetMin(samples), max |-> SetMax(samples)]

\* HeightMapInterface::getMinMaxOfArea(x, y, w, h): {min, max} of the valid
\* samples between (x-w/2, y-h/2) and (x+w/2, y+h/2), {0, 0} if there is none.
getMinMaxOfArea(x, y, aw, ah) ==
  LET samples == { heightAt(i, j) : <<i, j>> \in
                     { c \in ((x - aw \div 2)..(x + aw \div 2)) \X
                             ((y - ah \div 2)..(y + ah \div 2)) : valid(c[1], c[2]) } }
  IN  IF samples = {} THEN [min |-> 0, max |-> 0]
      ELSE [min |-> SetMin(samples), max |-> SetMax(samples)]

\* No call recorded.
NoQuery == [called |-> FALSE, x |-> 0, y |-> 0, w |-> 0, h |-> 0, min |-> 0, max |-> 0]

\* No height map loaded, no call made.
HmIdle ==
  /\ tex_ = [w |-> 0, h |-> 0, data |-> <<>>]
  /\ hm_prev = NoQuery
  /\ hm_last = NoQuery

\* The height maps of at most MaxW texels per row, of the heights MapRows,
\* with texel values 0..MaxHeight.
HeightMaps ==
  UNION { { [w |-> tw, h |-> th, data |-> d] :
              d \in [ (0..(tw - 1)) \X (0..(th - 1)) -> 0..MaxHeight ] } :
          tw \in 0..MaxW, th \in MapRows }

\* HeightMap::HeightMap
HmInit ==
  /\ tex_ \in HeightMaps
  /\ hm_prev = NoQuery
  /\ hm_last = NoQuery

\* A call of getMinMaxOfArea(x, y, w, h); the model follows two calls on
\* one height map.
AreaQuery(x, y, aw, ah) ==
  /\ ~hm_prev.called
  /\ hm_prev' = hm_last
  /\ LET res == getMinMaxOfArea(x, y, aw, ah)
     IN  hm_last' = [called |-> TRUE, x |-> x, y |-> y, w |-> aw, h |-> ah,
                     min |-> res.min, max |-> res.max]
  /\ UNCHANGED <<tex_, meshVars, idxVars, blVars, qtVars, shVars, trVars, luVars, goVars>>

\* The centres run from the first texel to one past the last one, so that
\* with w, h in 0..MaxExt the rectangles lie inside the map, across its
\* lower or upper border, or entirely outside it.
AreaQueryStep ==
  \E x \in 0..w, y \in 0..h, aw \in 0..MaxExt, ah \in 0..MaxExt :
    AreaQuery(x, y, aw, ah)

\* ------------------------------------------------------------------------
\* HeightMap::heightAt(double, double) (SampleSpec)
\* ------------------------------------------------------------------------

\* A coordinate x is held as the integer xn = x * SubDiv, and an
\* interpolated height as a multiple of 1 / (SubDiv * SubDiv); for these
\* dyadic fractions and small texel values the double arithmetic is exact.
SubDiv == 2 ^ SubDivBits

\* floor(x) and ceil(x) of the coordinate xn / SubDiv.
floor(xn) == xn \div SubDiv
ceil(xn) == 0 - ((0 - xn) \div SubDiv)

\* A mix whose weight is applied to the first operand.
mix_Swapped(a, b, tn) == a * tn + b * (SubDiv - tn)

\* glm::mix(a, b, t) = a * (1 - t) + b * t with t = tn / SubDiv; the result
\* carries one more factor SubDiv than a and b.
mix(a, b, tn) == a * (SubDiv - tn) + b * tn

\* The texels heightAt(double x, double y) fetches: tex_(fx, fy),
\* tex_(cx, fy), tex_(fx, cy), tex_(cx, cy).
heightAtFetches(xn, yn) ==
  << <<floor(xn), floor(yn)>>, <<ceil(xn), floor(yn)>>,
     <<floor(xn), ceil(yn)>>,  <<ceil(xn), ceil(yn)>> >>

\* HeightMap::heightAt(double x, double y), times SubDiv * SubDiv.
heightAtDouble(xn, yn) ==
  LET fx == floor(xn)
      cx == ceil(xn)
      fy == floor(yn)
      cy == ceil(yn)
      fh == mix(heightAt(fx, fy), heightAt(cx, fy), xn - fx * SubDiv)
      ch == mix(heightAt(fx, cy), heightAt(cx, cy), xn - fx * SubDiv)
  IN  mix(fh, ch, yn - fy * SubDiv)

\* No call recorded.
NoSample == [called |-> FALSE, xn |-> 0, yn |-> 0, fetches |-> <<>>, val |-> 0]

\* No interpolated fetch made.
BlIdle ==
  /\ bl_prev = NoSample
  /\ bl_last = NoSample

\* The height maps of the sizes SampleSizes with texel values 0..MaxHeight.
SampleMaps ==
  UNION { { [w |-> sz[1], h |-> sz[2], data |-> d] :
              d \in [ (0..(sz[1] - 1)) \X (0..(sz[2] - 1)) -> 0..MaxHeight ] } :
          sz \in SampleSizes }

\* The two coordinates are the same point or one sub-step apart along
\* one axis.
Adjacent(xa, ya, xb, yb) ==
  \/ xa = xb /\ ya - yb \in {0 - 1, 0, 1}
  \/ ya = yb /\ xa - xb \in {0 - 1, 0, 1}

\* A call of heightAt(x, y) with 0 <= x <= W-1 and 0 <= y <= H-1; the model
\* follows two calls on one height map, the second one at most one
\* sub-step away from the first.
Sample(xn, yn) ==
  /\ ~bl_prev.called
  /\ bl_last.called => Adjacent(bl_last.xn, bl_last.yn, xn, yn)
  /\ bl_prev' = bl_last
  /\ bl_last' = [called |-> TRUE, xn |-> xn, yn |-> yn,
                 fetches |-> heightAtFetches(xn, yn),
                 val |-> heightAtDouble(xn, yn)]
  /\ UNCHANGED <<tex_, hm_prev, hm_last, meshVars, idxVars, qtVars, shVars, trVars, luVars, goVars>>

SampleStep ==
  \E xn \in 0..((w - 1) * SubDiv), yn \in 0..((h - 1) * SubDiv) : Sample(xn, yn)

\* ------------------------------------------------------------------------
\* The LOD quadtree selector's per-frame pass (SelectSpec). The traversal
\* behind mesh_.render(cam) is written from the selector's design: cull,
\* range test, terminal case, and the failure semantics of a degenerate
\* area query.
\* ------------------------------------------------------------------------

\* The side of the terrain extent; the finest nodes have size 2, so that
\* every node centre is an integer coordinate.
baseSize == 2 ^ (MaxLevel + 1)

\* The whole-terrain node.
Root == [level |-> 0, gx |-> 0, gy |-> 0]

\* size = baseSize / 2^level
size(n) == baseSize \div (2 ^ n.level)

\* The horizontal extent [center - size/2, center + size/2] of a node.
center(n) == [x |-> n.gx * size(n) + size(n) \div 2,
              y |-> n.gy * size(n) + size(n) \div 2]
extent(n) == [x0 |-> center(n).x - size(n) \div 2, x1 |-> center(n).x + size(n) \div 2,
              y0 |-> center(n).y - size(n) \div 2, y1 |-> center(n).y + size(n) \div 2]

\* The 4 children of a node, one level finer.
children(n) ==
  << [level |-> n.level + 1, gx |-> 2 * n.gx,     gy |-> 2 * n.gy],
     [level |-> n.level + 1, gx |-> 2 * n.gx + 1, gy |-> 2 * n.gy],
     [level |-> n.level + 1, gx |-> 2 * n.gx,     gy |-> 2 * n.gy + 1],
     [level |-> n.level + 1, gx |-> 2 * n.gx + 1, gy |-> 2 * n.gy + 1] >>

\* The vertical extent of a node's bounding box: the area query over its
\* footprint. A malformed height field hands its extrema back in the
\* wrong order.
areaMinMax(n) ==
  LET r == getMinMaxOfArea(center(n).x, center(n).y, size(n), size(n))
  IN  IF qt_in.inverted THEN [min |-> r.max, max |-> r.min] ELSE r

\* The greater of two numbers.
Max2(a, b) == IF a >= b THEN a ELSE b

\* The distance from coordinate c to the nearest and to the farthest point
\* of the interval [lo, hi].
AxisNear(c, lo, hi) == IF c < lo THEN lo - c ELSE IF c > hi THEN c - hi ELSE 0
AxisFar(c, lo, hi) == Max2(IF c < lo THEN lo - c ELSE c - lo,
                           IF c > hi THEN c - hi ELSE hi - c)

\* The distance (in the maximum norm) from the camera, at (cx, cy) and alt
\* above the terrain, to the closest and to the farthest point of a node.
closest(n) ==
  Max2(Max2(AxisNear(qt_in.cx, extent(n).x0, extent(n).x1),
            AxisNear(qt_in.cy, extent(n).y0, extent(n).y1)), qt_in.alt)
farthest(n) ==
  Max2(Max2(AxisFar(qt_in.cx, extent(n).x0, extent(n).x1),
            AxisFar(qt_in.cy, extent(n).y0, extent(n).y1)), qt_in.alt)

\* R_level: the range of a level, proportional to its node size, so that it
\* doubles per level from the finest to the coarsest.
range(level) == qt_in.factor * (baseSize \div (2 ^ level))

\* A selector that takes every area query result for a box.
degenerate_Never(r) == FALSE

\* The area query returned the empty sentinel (0,0) or an inverted
\* min > max.
degenerate(r) == r.min > r.max \/ (r.min = 0 /\ r.max = 0)

\* The bounding box intersects the frustum, the box
\* [cx - view, cx + view] x [cy - view, cy + view] x [zlo, zhi]: no face of
\* one lies beyond the opposite face of the other.
intersectsFrustum(n, r) ==
  /\ extent(n).x1 >= qt_in.cx - qt_in.view /\ extent(n).x0 <= qt_in.cx + qt_in.view
  /\ extent(n).y1 >= qt_in.cy - qt_in.view /\ extent(n).y0 <= qt_in.cy + qt_in.view
  /\ r.max >= qt_in.zlo /\ r.min <= qt_in.zhi

\* A selector without the terminal case.
atMaxLevel_Never(n) == FALSE

\* Terminal case: the node is at the maximum configured depth.
atMaxLevel(n) == n.level >= MaxLevel

\* The node is fully within its level's range, and no part of it reaches
\* the next finer level's range.
withinRange(n) == farthest(n) <= range(n.level)
reachesFiner(n) == closest(n) <= range(n.level + 1)

\* The selector's decision for a node whose area query returned r.
select(n, r) ==
  IF degenerate(r) \/ ~intersectsFrustum(n, r) THEN "cull"
  ELSE IF atMaxLevel(n) THEN "render"
  ELSE IF withinRange(n) /\ ~reachesFiner(n) THEN "render"
  ELSE "recurse"

\* Stitching decision: the quadrants a rendered node n asks the grid mesh
\* for. Across each of its four edges lies, at n's own level, the node
\* (gx + dx, gy + dy), unless the edge is on the rim of the terrain extent;
\* the neighbour one level up is that node's parent, and it is rendered
\* coarser when the walk renders it: every node above it recurses and the
\* range test (recomputed on demand) renders it. The pair of quadrants along
\* such an edge is left out of the request, so the full 4-quadrant pattern
\* is asked for only by a node none of whose edges borders a coarser node,
\* as the root, which has no neighbour. Left is -x and top is +y, as in the
\* grid mesh (tl is its sub-quad of xsign -1, ysign +1).
nodeQuadrants(n) ==
  LET above(p, l) == [level |-> l, gx |-> p.gx \div (2 ^ (p.level - l)),
                      gy |-> p.gy \div (2 ^ (p.level - l))]
      rendered(p) ==
        /\ select(p, areaMinMax(p)) = "render"
        /\ \A l \in 0..(p.level - 1) :
             select(above(p, l), areaMinMax(above(p, l))) = "recurse"
      coarser(dx, dy) ==
        /\ n.level > 0
        /\ n.gx + dx \in 0..(2 ^ n.level - 1)
        /\ n.gy + dy \in 0..(2 ^ n.level - 1)
        /\ rendered([level |-> n.level - 1, gx |-> (n.gx + dx) \div 2,
                      gy |-> (n.gy + dy) \div 2])
  IN  [tl |-> ~coarser(0 - 1, 0) /\ ~coarser(0, 1),
       tr |-> ~coarser(1, 0) /\ ~coarser(0, 1),
       bl |-> ~coarser(0 - 1, 0) /\ ~coarser(0, 0 - 1),
       br |-> ~coarser(1, 0) /\ ~coarser(0, 0 - 1)]

\* No frame in progress.
NoFrame == [cx |-> 0, cy |-> 0, alt |-> 0, view |-> 0, zlo |-> 0, zhi |-> 0,
            factor |-> 1, inverted |-> FALSE]

\* No traversal started.
QtIdle ==
  /\ qt_in = NoFrame
  /\ qt_stack = <<>>
  /\ qt_visited = <<>>
  /\ qt_draws = <<>>

\* The height fields of SelectSpec, one texel per integer coordinate of the
\* terrain extent: flat at each elevation, a step (zero on one half, the
\* greatest height on the other), and the zero-size field.
FlatField(e) ==
  [w |-> baseSize + 1, h |-> baseSize + 1,
   data |-> [c \in (0..baseSize) \X (0..baseSize) |-> e]]
StepField ==
  [w |-> baseSize + 1, h |-> baseSize + 1,
   data |-> [c \in (0..baseSize) \X (0..baseSize) |->
               IF c[1] > baseSize \div 2 THEN MaxHeight ELSE 0]]
ZeroSizeField == [w |-> 0, h |-> 0, data |-> <<>>]
TerrainFields == { FlatField(e) : e \in 0..MaxHeight } \cup {StepField, ZeroSizeField}

\* The cameras of SelectSpec: on a corner, over the centre of the terrain
\* or on its far edge; on the ground, just within the extent of a level 1
\* node (from a corner the node below the camera is then rendered at level
\* 1 beside nodes of level 2) or just beyond it; seeing nothing but its own
\* column, half the extent or all of it; between any two elevations.
CamCoords == {0, baseSize \div 2, baseSize}
CamAlts == {0, baseSize \div 2 - 1, baseSize \div 2 + 1}
CamViews == {0, baseSize \div 2, baseSize}
Frames ==
  { f \in [cx : CamCoords, cy : {0, baseSize \div 2}, alt : CamAlts, view : CamViews,
           zlo : 0..MaxHeight, zhi : 0..MaxHeight,
           factor : RangeFactors, inverted : BOOLEAN] : f.zlo <= f.zhi }

\* The start of a frame's pass: the traversal begins at the root. The
\* model follows one frame per height field.
beginFrame(f) ==
  /\ qt_stack = <<>>
  /\ qt_visited = <<>>
  /\ qt_in' = f
  /\ qt_stack' = <<Root>>
  /\ qt_visited' = <<>>
  /\ qt_draws' = <<>>
  /\ UNCHANGED <<meshVars, idxVars, hmVars, blVars, shVars, trVars, luVars, goVars>>

beginFrameStep == \E f \in Frames : beginFrame(f)

\* One step of the depth-first walk: the next node is culled, rendered
\* (the grid mesh draws its quadrants) or replaced by its 4 children.
selectNode ==
  /\ qt_stack # <<>>
  /\ \E n \in {Head(qt_stack)} :
       \E r \in {areaMinMax(n)} :
         \E d \in {select(n, r)} :
           /\ qt_visited' = Append(qt_visited,
                                   [node |-> n, min |-> r.min, max |-> r.max,
                                    decision |-> d])
           /\ qt_stack' = (IF d = "recurse" THEN children(n) ELSE <<>>) \o Tail(qt_stack)
           /\ IF d = "render"
              THEN \E q \in {nodeQuadrants(n)} :
                     qt_draws' = Append(qt_draws,
                                        [node |-> n,
                                         calls |-> renderCalls(q.tl, q.tr, q.bl, q.br)])
              ELSE qt_draws' = qt_draws
  /\ UNCHANGED <<qt_in, meshVars, idxVars, hmVars, blVars, shVars, trVars, luVars, goVars>>

\* ------------------------------------------------------------------------
\* Shadow (src/include/shadow.hpp) and Terrain::render (src/src/terrain.cc)
\* (FrameSpec)
\* ------------------------------------------------------------------------

\* The framebuffer bound by Framebuffer::Unbind(), and the one bound through
\* an element read outside fbo_.
DefaultFbo == 0 - 1
GarbageFbo == 0 - 2

\* No Shadow operation yet.
NoShadowOp == [op |-> "none", depth |-> 0, bound |-> DefaultFbo, mats |-> <<>>,
               threw |-> FALSE, index |-> 0 - 1]

\* The record of operation op, started in the current state, that accessed
\* element index of a vector (-1: none) and threw or not.
ShadowOp(op, index, threw) ==
  [op |-> op, depth |-> curr_depth_, bound |-> fbo_bound, mats |-> cp_matrices_,
   threw |-> threw, index |-> index]

\* Slot i of cp_matrices_ (the model's sequences start at 1).
SlotOf(mats, i) == mats[i + 1]

\* Shadow::getDepth
getDepth == curr_depth_

\* Shadow::getMaxDepth
getMaxDepth == max_depth_

\* Shadow::shadowCPs
shadowCPs == cp_matrices_

\* No scene object constructed.
ShIdle ==
  /\ has_shadow = FALSE
  /\ max_depth_ = 0
  /\ curr_depth_ = 0
  /\ cp_matrices_ = <<>>
  /\ fbo_bound = DefaultFbo
  /\ sized = FALSE
  /\ viewport = "window"
  /\ crashed = FALSE
  /\ sh_open = FALSE
  /\ sh_written = {}
  /\ sh_pushes = 0 - 1
  /\ sh_last = NoShadowOp

\* No texture bound, no render made.
TrIdle ==
  /\ tr_units = [u \in 2..5 |-> "none"]
  /\ tr_log = <<>>

\* Shadow::Shadow(shadowMapSize, depth), or a scene without a Shadow: depth
\* default-constructed matrices, curr_depth_ 0, the default framebuffer
\* bound again, w_ and h_ not set.
ShInit ==
  /\ has_shadow \in BOOLEAN
  /\ max_depth_ \in (IF has_shadow THEN 0..MaxDepth ELSE {0})
  /\ curr_depth_ = 0
  /\ cp_matrices_ = [i \in 1..max_depth_ |-> 0]
  /\ fbo_bound = DefaultFbo
  /\ sized = FALSE
  /\ viewport = "window"
  /\ crashed = FALSE
  /\ sh_open = FALSE
  /\ sh_written = {}
  /\ sh_pushes = 0 - 1
  /\ sh_last = NoShadowOp

\* Terrain::Terrain leaves no texture of its own on the units 2..5; another
\* renderer may have left its textures there.
TrInit ==
  /\ tr_units \in { [u \in 2..5 |-> t] : t \in {"none", "other"} }
  /\ tr_log = <<>>

\* Shadow::resize(width, height)
resize ==
  /\ has_shadow /\ ~crashed
  /\ sized' = TRUE
  /\ sh_last' = ShadowOp("resize", 0 - 1, FALSE)
  /\ tr_log' = <<>>
  /\ UNCHANGED <<has_shadow, max_depth_, curr_depth_, cp_matrices_, fbo_bound, viewport,
                 crashed, sh_open, sh_written, sh_pushes, tr_units>>
  /\ UNCHANGED <<meshVars, idxVars, hmVars, blVars, qtVars, luVars, goVars>>

\* A begin() that leaves curr_depth_ as it was.
beginDepth_Keep(curr) == curr

\* The depth Shadow::begin() assigns: curr_depth_ = 0, whatever it was.
beginDepth(curr) == 0

\* Shadow::begin(): fbo_[0].bind(); curr_depth_ = 0; glViewport to the map
\* size. With no cascade, fbo_[0] lies outside the vector: the process is
\* killed, or a garbage framebuffer name is bound.
begin ==
  /\ has_shadow /\ ~crashed
  /\ sh_last' = ShadowOp("begin", 0, FALSE)
  /\ tr_log' = <<>>
  /\ \/ /\ max_depth_ > 0
        /\ fbo_bound' = 0
        /\ crashed' = FALSE
     \/ /\ max_depth_ = 0
        /\ fbo_bound' = GarbageFbo
        /\ crashed' \in BOOLEAN
  /\ curr_depth_' = beginDepth(curr_depth_)
  /\ viewport' = "shadowmap"
  /\ sh_open' = TRUE
  /\ sh_written' = {}
  /\ sh_pushes' = 0
  /\ UNCHANGED <<has_shadow, max_depth_, cp_matrices_, sized, tr_units>>
  /\ UNCHANGED <<meshVars, idxVars, hmVars, blVars, qtVars, luVars, goVars>>

\* A push that tests curr_depth_ < max_depth_.
pushFits_NoReserve(curr, max) == curr < max

\* The test of Shadow::push: curr_depth_ + 1 < max_depth_.
pushFits(curr, max) == curr + 1 < max

\* A push that binds fbo_[curr_depth_++].
pushBinds_Post(curr) == curr

\* The framebuffer Shadow::push binds: fbo_[++curr_depth_].
pushBinds(curr) == curr + 1

\* Shadow::push(): the next cascade's framebuffer, or std::overflow_error.
push ==
  /\ has_shadow /\ ~crashed
  /\ tr_log' = <<>>
  /\ IF pushFits(curr_depth_, max_depth_)
     THEN /\ curr_depth_' = curr_depth_ + 1
          /\ fbo_bound' = pushBinds(curr_depth_)
          /\ sh_pushes' = IF sh_pushes = 0 - 1 THEN sh_pushes ELSE sh_pushes + 1
          /\ sh_last' = ShadowOp("push", pushBinds(curr_depth_), FALSE)
     ELSE /\ sh_last' = ShadowOp("push", 0 - 1, TRUE)
          /\ UNCHANGED <<curr_depth_, fbo_bound, sh_pushes>>
  /\ UNCHANGED <<has_shadow, max_depth_, cp_matrices_, sized, viewport, crashed,
                 sh_open, sh_written, tr_units>>
  /\ UNCHANGED <<meshVars, idxVars, hmVars, blVars, qtVars, luVars, goVars>>

\* Shadow::modelCamProjMat(lightSrcPos, targetBSphere, modelMatrix):
\* cp_matrices_[curr_depth_] = biasMatrix * pc, here the matrix m. A slot
\* outside the vector kills the process or lands in foreign memory.
modelCamProjMat(m) ==
  /\ has_shadow /\ ~crashed
  /\ sh_last' = ShadowOp("modelCamProjMat", curr_depth_, FALSE)
  /\ tr_log' = <<>>
  /\ \/ /\ curr_depth_ < Len(cp_matrices_)
        /\ cp_matrices_' = [cp_matrices_ EXCEPT ![curr_depth_ + 1] = m]
        /\ crashed' = FALSE
     \/ /\ curr_depth_ >= Len(cp_matrices_)
        /\ cp_matrices_' = cp_matrices_
        /\ crashed' \in BOOLEAN
  /\ sh_written' = IF sh_open THEN sh_written \cup {curr_depth_} ELSE sh_written
  /\ UNCHANGED <<has_shadow, max_depth_, curr_depth_, fbo_bound, sized, viewport,
                 sh_open, sh_pushes, tr_units>>
  /\ UNCHANGED <<meshVars, idxVars, hmVars, blVars, qtVars, luVars, goVars>>

modelCamProjMatStep == \E m \in Matrices : modelCamProjMat(m)

\* Shadow::end(): Framebuffer::Unbind(); glViewport(0, 0, w_, h_), which
\* reads w_ and h_ whether or not resize has set them.
end ==
  /\ has_shadow /\ ~crashed
  /\ sh_last' = ShadowOp("end", 0 - 1, FALSE)
  /\ tr_log' = <<>>
  /\ fbo_bound' = DefaultFbo
  /\ viewport' = IF sized THEN "window" ELSE "indeterminate"
  /\ sh_open' = FALSE
  /\ UNCHANGED <<has_shadow, max_depth_, curr_depth_, cp_matrices_, sized, crashed,
                 sh_written, sh_pushes, tr_units>>
  /\ UNCHANGED <<meshVars, idxVars, hmVars, blVars, qtVars, luVars, goVars>>

\* A GL-level call of Terrain::render: a program call, a uniform
\* assignment (idx: the array element, arg: the value), a texture bind or
\* unbind (arg: the unit), or the mesh's render.
Call(op, name, idx, arg) == [op |-> op, name |-> name, idx |-> idx, arg |-> arg]

\* Terrain::render, lines 64-68.
renderUniforms ==
  << Call("use", "prog_", 0, 0), Call("update", "prog_", 0, 0),
     Call("uniform", "uCameraMatrix", 0, 0),
     Call("uniform", "uProjectionMatrix", 0, 0),
     Call("uniform", "uModelMatrix", 0, 0) >>

\* Terrain::render, lines 69-75.
renderShadowUniforms ==
  IF has_shadow
  THEN [i \in 1..getDepth |-> Call("uniform", "uShadowCP", i - 1, SlotOf(shadowCPs, i - 1))]
       \o << Call("uniform", "uNumUsedShadowMaps", 0, getDepth),
             Call("uniform", "uShadowAtlasSize", 0, 0) >>
  ELSE <<>>

\* Terrain::render, lines 77-80.
renderBinds ==
  << Call("bind", "grassMaps_[0]", 0, 2), Call("bind", "grassMaps_[1]", 0, 3),
     Call("bind", "grassNormalMap_", 0, 4) >>
  \o (IF has_shadow THEN << Call("bind", "shadowTex", 0, 5) >> ELSE <<>>)

\* A render that unbinds in the order of binding.
renderUnbinds_BindOrder ==
  << Call("unbind", "grassMaps_[0]", 0, 2), Call("unbind", "grassMaps_[1]", 0, 3),
     Call("unbind", "grassNormalMap_", 0, 4) >>
  \o (IF has_shadow THEN << Call("unbind", "shadowTex", 0, 5) >> ELSE <<>>)

\* Terrain::render, lines 84-87.
renderUnbinds ==
  (IF has_shadow THEN << Call("unbind", "shadowTex", 0, 5) >> ELSE <<>>)
  \o << Call("unbind", "grassNormalMap_", 0, 4), Call("unbind", "grassMaps_[1]", 0, 3),
        Call("unbind", "grassMaps_[0]", 0, 2) >>

\* The calls of Terrain::render in order; mesh_.render(cam) is the walk of
\* SelectSpec and its draws, which bind no texture.
renderLog ==
  renderUniforms \o renderShadowUniforms \o renderBinds
  \o << Call("mesh", "mesh_", 0, 0) >> \o renderUnbinds

\* The texture units after the first k calls of log, starting from units.
RECURSIVE UnitsAfter(_, _, _)
UnitsAfter(units, log, k) ==
  IF k = 0 THEN units
  ELSE LET before == UnitsAfter(units, log, k - 1)
           c == log[k]
       IN  IF c.op = "bind" THEN [before EXCEPT ![c.arg] = c.name]
           ELSE IF c.op = "unbind" THEN [before EXCEPT ![c.arg] = "none"]
           ELSE before

\* Terrain::render()
TerrainRender ==
  /\ ~crashed
  /\ tr_log' = renderLog
  /\ tr_units' = UnitsAfter(tr_units, renderLog, Len(renderLog))
  /\ sh_last' = ShadowOp("render", 0 - 1, FALSE)
  /\ UNCHANGED <<has_shadow, max_depth_, curr_depth_, cp_matrices_, fbo_bound, sized,
                 viewport, crashed, sh_open, sh_written, sh_pushes>>
  /\ UNCHANGED <<meshVars, idxVars, hmVars, blVars, qtVars, luVars, goVars>>

\* ------------------------------------------------------------------------
\* oglwrap::LazyUniform (src/include/oglwrap/uniform.hpp) (UniformSpec)
\* ------------------------------------------------------------------------

\* INVALID_LOCATION, the value glGetUniformLocation returns for a name it
\* does not find.
INVALID_LOCATION == 0 - 1

\* The LazyUniform objects; object u names the uniform variable at
\* location u - 1 of the linked program.
Uniforms == 1..NumUniforms

\* glGetUniformLocation(program.Expose(), identifier.c_str()) for object u.
glGetUniformLocation(u) == IF linked THEN u - 1 ELSE INVALID_LOCATION

\* No uniform object, no program.
LuIdle ==
  /\ firstCall = TRUE
  /\ location = <<>>
  /\ linked = FALSE
  /\ active = FALSE
  /\ values = <<>>
  /\ lu_sets = <<>>
  /\ lu_queries = <<>>
  /\ lu_errors = 0

\* LazyUniform::LazyUniform(program, identifier) for each object: the
\* location is INVALID_LOCATION, the program need not be valid yet.
LuInit ==
  /\ firstCall = TRUE
  /\ location = [u \in Uniforms |-> INVALID_LOCATION]
  /\ linked \in BOOLEAN
  /\ active = FALSE
  /\ values = [u \in Uniforms |-> 0]
  /\ lu_sets = [u \in Uniforms |-> 0]
  /\ lu_queries = [u \in Uniforms |-> 0]
  /\ lu_errors = 0

\* The program is linked after the uniform objects were constructed.
Link ==
  /\ ~linked
  /\ linked' = TRUE
  /\ UNCHANGED <<firstCall, location, active, values, lu_sets, lu_queries, lu_errors>>
  /\ UNCHANGED <<meshVars, idxVars, hmVars, blVars, qtVars, shVars, trVars, goVars>>

\* The value of firstCall after the block `if(firstCall) { ...; firstCall =
\* true; }` of LazyUniform::Set.
firstCallAfter == TRUE

\* LazyUniform::Set(value) on object u (operator= calls it): program.Use(),
\* the location query under firstCall, the stderr message for an invalid
\* location, and UniformObject::Set, i.e. glUniform*(location, value),
\* which GL ignores for the location -1.
Set(u, value) ==
  /\ lu_sets[u] < MaxSets
  /\ active' = TRUE
  /\ location' = IF firstCall THEN [location EXCEPT ![u] = glGetUniformLocation(u)]
                 ELSE location
  /\ firstCall' = IF firstCall THEN firstCallAfter ELSE firstCall
  /\ lu_queries' = IF firstCall THEN [lu_queries EXCEPT ![u] = @ + 1] ELSE lu_queries
  /\ lu_errors' = IF location'[u] = INVALID_LOCATION THEN lu_errors + 1 ELSE lu_errors
  /\ values' = IF location'[u] = INVALID_LOCATION THEN values
               ELSE [values EXCEPT ![location'[u] + 1] = value]
  /\ lu_sets' = [lu_sets EXCEPT ![u] = @ + 1]
  /\ UNCHANGED linked
  /\ UNCHANGED <<meshVars, idxVars, hmVars, blVars, qtVars, shVars, trVars, goVars>>

SetStep == \E u \in Uniforms, value \in 0..MaxValue : Set(u, value)

\* ------------------------------------------------------------------------
\* engine::GameObject (src/src/engine/game_object.cc) (ObjectSpec)
\* ------------------------------------------------------------------------

\* The objects of the tree and the object the dispatches start at.
Objects == 1..Len(Parents)
RootObject == 1

\* The objects the three containers of o hold pointers to: o itself (the
\* dispatchers test component == this) and its components.
Members(o) == {o} \cup { c \in Objects : Parents[c] = o }

\* The iteration order of a container of GameObject pointers, `for (auto&
\* component : sorted_components_)`: ascending pointer values, that is, by
\* the addresses the objects were allocated at and not by their numbering.
RECURSIVE Order(_)
Order(S) ==
  IF S = {} THEN <<>>
  ELSE LET first == CHOOSE m \in S : \A v \in S : address[m] <= address[v]
       IN  <<first>> \o Order(S \ {first})

\* The handler each dispatcher calls on the object itself.
handlerOf(fn) ==
  CASE fn = "shadowRenderAll" -> "shadowRender"
    [] fn = "renderAll" -> "render"
    [] fn = "render2DAll" -> "render2D"
    [] fn = "screenResizedAll" -> "screenResized"
    [] OTHER -> "none"

\* The dispatchers with a component == this branch (lines 17, 27, 37, 47);
\* the others skip the object itself (component != this).
callsOwn(fn) == fn \in {"shadowRenderAll", "renderAll", "render2DAll", "screenResizedAll"}

\* A renderAll that also starts with updateSortedComponents.
sortsFirst_Render(fn) == fn \in {"updateAll", "renderAll"}

\* The dispatchers that start with updateSortedComponents(): updateAll only.
sortsFirst(fn) == fn = "updateAll"

\* A handler call with no try block around it.
TRY_NoCatch(out) == out

\* _TRY: what leaves the block when the handler's outcome is out: a
\* std::exception is caught and printed, anything else thrown passes.
TRY(out) == IF out = "std::exception" THEN "ok" ELSE out

\* An updateSortedComponents that inserts before it erases.
sortedAfter_InsertFirst(sorted, disabled, enabled) == (sorted \cup enabled) \ disabled

\* sorted_components_ after lines 105-110: the disabled erased, then the
\* enabled inserted.
sortedAfter(sorted, disabled, enabled) == (sorted \ disabled) \cup enabled

\* An updateSortedComponents that notifies every sorted component.
resizeTargets_AllSorted(sorted, enabled) == sorted

\* The container the loop of line 112 iterates: components_just_enabled_.
resizeTargets(sorted, enabled) == enabled

\* One call of the log: function fn on object obj, made by object caller
\* inside its function via, with argument arg; out is a handler's outcome
\* ("ok", "std::exception", "other") and "call" for every other function.
Entry(fn, obj, caller, via, arg, out) ==
  [fn |-> fn, obj |-> obj, caller |-> caller, via |-> via, arg |-> arg, out |-> out]

\* The handlers' behaviour during one dispatch: none throws (obj 0), or one
\* object's handlers throw, a std::exception or something else.
Throws ==
  { [obj |-> 0, kind |-> "ok"] }
  \cup { [obj |-> o, kind |-> k] : o \in Objects, k \in {"std::exception", "other"} }

\* The containers of all objects.
Containers ==
  [sorted |-> sorted_components_, en |-> components_just_enabled_,
   dis |-> components_just_disabled_]

\* Default-constructed containers.
NoContainers ==
  [sorted |-> [o \in Objects |-> {}], en |-> [o \in Objects |-> {}],
   dis |-> [o \in Objects |-> {}]]

\* No dispatch in progress.
NoPass == [fn |-> "none", arg |-> 0, ok |-> TRUE]

\* Every call below yields a record: log, the calls made; ok, whether it
\* returned (no exception on its way out); st, the containers it leaves.
RECURSIVE All(_, _, _, _, _)
RECURSIVE dispatchLoop(_, _, _, _, _, _, _)
RECURSIVE updateSortedComponents(_, _, _)
RECURSIVE resizeLoop(_, _, _, _, _)

\* The body of the for loop of a dispatcher fn of object o, from the k-th
\* element of comps on: the object's own handler inside _TRY, or the
\* component's dispatcher.
dispatchLoop(fn, st, o, arg, th, comps, k) ==
  IF k > Len(comps) THEN [log |-> <<>>, ok |-> TRUE, st |-> st]
  ELSE LET c == comps[k]
           out == IF th.obj = o THEN th.kind ELSE "ok"
           step == IF c = o
                   THEN IF callsOwn(fn)
                        THEN [log |-> <<Entry(handlerOf(fn), o, o, fn, arg, out)>>, ok |-> TRY(out) = "ok", st |-> st]
                        ELSE [log |-> <<>>, ok |-> TRUE, st |-> st]
                   ELSE LET sub == All(fn, st, c, arg, th)
                        IN  [log |-> <<Entry(fn, c, o, fn, arg, "call")>> \o sub.log, ok |-> sub.ok, st |-> sub.st]
       IN  IF step.ok
           THEN LET rest == dispatchLoop(fn, step.st, o, arg, th, comps, k + 1)
                IN  [log |-> step.log \o rest.log, ok |-> rest.ok, st |-> rest.st]
           ELSE step

\* GameObject::shadowRenderAll, renderAll, render2DAll, screenResizedAll,
\* updateAll, keyActionAll, charTypedAll, mouseScrolledAll,
\* mouseButtonPressedAll, mouseMovedAll: the dispatcher fn of object o.
All(fn, st, o, arg, th) ==
  LET pre == IF sortsFirst(fn) THEN updateSortedComponents(st, o, th)
             ELSE [log |-> <<>>, ok |-> TRUE, st |-> st]
  IN  IF pre.ok
      THEN LET rest == dispatchLoop(fn, pre.st, o, arg, th, Order(pre.st.sorted[o]), 1)
           IN  [log |-> pre.log \o rest.log, ok |-> rest.ok, st |-> rest.st]
      ELSE pre

\* The loop of lines 112-116 of object o, from the k-th element of comps on:
\* component->screenResizedAll(width, height) with the window's size.
resizeLoop(st, o, th, comps, k) ==
  IF k > Len(comps) THEN [log |-> <<>>, ok |-> TRUE, st |-> st]
  ELSE LET c == comps[k]
           sub == All("screenResizedAll", st, c, window, th)
           step == [log |-> <<Entry("screenResizedAll", c, o, "updateSortedComponents", window, "call")>> \o sub.log, ok |-> sub.ok, st |-> sub.st]
       IN  IF step.ok
           THEN LET rest == resizeLoop(step.st, o, th, comps, k + 1)
                IN  [log |-> step.log \o rest.log, ok |-> rest.ok, st |-> rest.st]
           ELSE step

\* GameObject::updateSortedComponents of object o. An exception on its way
\* out of the loop of line 112 leaves components_just_enabled_ as it was.
updateSortedComponents(st, o, th) ==
  LET after == sortedAfter(st.sorted[o], st.dis[o], st.en[o])
      st2 == [sorted |-> [st.sorted EXCEPT ![o] = after], en |-> st.en,
              dis |-> [st.dis EXCEPT ![o] = {}]]
      head == << Entry("erase", o, o, "updateSortedComponents", 0, "call"),
                 Entry("insert", o, o, "updateSortedComponents", 0, "call") >>
      loop == resizeLoop(st2, o, th, Order(resizeTargets(after, st.en[o])), 1)
  IN  IF loop.ok
      THEN [log |-> head \o loop.log \o << Entry("clear", o, o, "updateSortedComponents", 0, "call") >>, ok |-> TRUE, st |-> [loop.st EXCEPT !.en[o] = {}]]
      ELSE [log |-> head \o loop.log, ok |-> FALSE, st |-> loop.st]

\* No GameObject constructed: no container, no address, no dispatch.
GoIdle ==
  /\ sorted_components_ = <<>>
  /\ components_just_enabled_ = <<>>
  /\ components_just_disabled_ = <<>>
  /\ window = WindowSize
  /\ go_pass = NoPass
  /\ go_log = <<>>
  /\ go_prev = NoContainers
  /\ address = <<>>

\* The tree after construction: every container empty, the window open, no
\* dispatch made, and the objects allocated at distinct addresses.
GoInit ==
  /\ sorted_components_ = NoContainers.sorted
  /\ components_just_enabled_ = NoContainers.en
  /\ components_just_disabled_ = NoContainers.dis
  /\ window = WindowSize
  /\ go_pass = NoPass
  /\ go_log = <<>>
  /\ go_prev = NoContainers
  /\ address \in Layouts

\* A component c of an object o, or o itself, is enabled: it enters o's
\* components_just_enabled_.
enable ==
  \E o \in Objects : \E c \in Members(o) :
    /\ go_pass = NoPass
    /\ c \notin components_just_enabled_[o]
    /\ Cardinality({ x \in Objects \X Objects :
                       x[2] \in components_just_enabled_[x[1]] })
         + Cardinality({ x \in Objects \X Objects :
                           x[2] \in components_just_disabled_[x[1]] }) < MaxPending
    /\ components_just_enabled_' = [components_just_enabled_ EXCEPT ![o] = @ \cup {c}]
    /\ UNCHANGED <<sorted_components_, components_just_disabled_, window, go_pass, go_log,
                   go_prev, address>>
    /\ UNCHANGED <<meshVars, idxVars, hmVars, blVars, qtVars, shVars, trVars, luVars>>

\* A component c of an object o, or o itself, is disabled: it enters o's
\* components_just_disabled_.
disable ==
  \E o \in Objects : \E c \in Members(o) :
    /\ go_pass = NoPass
    /\ c \notin components_just_disabled_[o]
    /\ Cardinality({ x \in Objects \X Objects :
                       x[2] \in components_just_enabled_[x[1]] })
         + Cardinality({ x \in Objects \X Objects :
                           x[2] \in components_just_disabled_[x[1]] }) < MaxPending
    /\ components_just_disabled_' = [components_just_disabled_ EXCEPT ![o] = @ \cup {c}]
    /\ UNCHANGED <<sorted_components_, components_just_enabled_, window, go_pass, go_log,
                   go_prev, address>>
    /\ UNCHANGED <<meshVars, idxVars, hmVars, blVars, qtVars, shVars, trVars, luVars>>

\* The dispatcher fn called on the root object with argument arg, the
\* handlers behaving as th says.
Dispatch(fn, arg, th) ==
  /\ go_pass = NoPass
  /\ \E r \in {All(fn, Containers, RootObject, arg, th)} :
       /\ sorted_components_' = r.st.sorted
       /\ components_just_enabled_' = r.st.en
       /\ components_just_disabled_' = r.st.dis
       /\ go_log' = r.log
       /\ go_pass' = [fn |-> fn, arg |-> arg, ok |-> r.ok]
  /\ go_prev' = Containers
  /\ UNCHANGED <<window, address>>
  /\ UNCHANGED <<meshVars, idxVars, hmVars, blVars, qtVars, shVars, trVars, luVars>>

\* GameObject::shadowRenderAll()
shadowRenderAll == \E th \in Throws : Dispatch("shadowRenderAll", 0, th)

\* GameObject::renderAll()
renderAll == \E th \in Throws : Dispatch("renderAll", 0, th)

\* GameObject::render2DAll()
render2DAll == \E th \in Throws : Dispatch("render2DAll", 0, th)

\* GameObject::screenResizedAll(width, height)
screenResizedAll ==
  \E th \in Throws : \E sz \in {WindowSize, WindowSize - 1} : Dispatch("screenResizedAll", sz, th)

\* GameObject::updateAll()
updateAll == \E th \in Throws : Dispatch("updateAll", 0, th)

\* GameObject::keyActionAll(key, scancode, action, mods)
keyActionAll == Dispatch("keyActionAll", 0, [obj |-> 0, kind |-> "ok"])

\* GameObject::charTypedAll(codepoint)
charTypedAll == Dispatch("charTypedAll", 0, [obj |-> 0, kind |-> "ok"])

\* GameObject::mouseScrolledAll(xoffset, yoffset)
mouseScrolledAll == Dispatch("mouseScrolledAll", 0, [obj |-> 0, kind |-> "ok"])

\* GameObject::mouseButtonPressedAll(button, action, mods)
mouseButtonPressedAll == Dispatch("mouseButtonPressedAll", 0, [obj |-> 0, kind |-> "ok"])

\* GameObject::mouseMovedAll(xpos, ypos)
mouseMovedAll == Dispatch("mouseMovedAll", 0, [obj |-> 0, kind |-> "ok"])

\* The dispatch returns to its caller, normally or by the exception that
\* left it.
returnFromAll ==
  /\ go_pass # NoPass
  /\ go_pass' = NoPass
  /\ go_log' = <<>>
  /\ go_prev' = NoContainers
  /\ UNCHANGED <<sorted_components_, components_just_enabled_, components_just_disabled_,
                 window, address>>
  /\ UNCHANGED <<meshVars, idxVars, hmVars, blVars, qtVars, shVars, trVars, luVars>>

\* ------------------------------------------------------------------------
\* Specifications
\* ------------------------------------------------------------------------

Init == MeshInit /\ IdxIdle /\ HmIdle /\ BlIdle /\ QtIdle /\ ShIdle /\ TrIdle /\ LuIdle /\ GoIdle

Next == SetupStep \/ RenderStep

Spec == Init /\ [][Next]_vars

IndexInit ==
  MeshInit /\ HmIdle /\ BlIdle /\ QtIdle /\ ShIdle /\ TrIdle /\ LuIdle /\ GoIdle /\ idx_in \in IdxInputs /\ idx_out = <<>>

IndexNext == IndexRow

IndexSpec == IndexInit /\ [][IndexNext]_vars

HeightInit == MeshInit /\ IdxIdle /\ BlIdle /\ QtIdle /\ ShIdle /\ TrIdle /\ LuIdle /\ GoIdle /\ HmInit

HeightNext == AreaQueryStep

HeightSpec == HeightInit /\ [][HeightNext]_vars

SampleInit ==
  /\ MeshInit /\ IdxIdle /\ BlIdle /\ QtIdle /\ ShIdle /\ TrIdle /\ LuIdle /\ GoIdle
  /\ tex_ \in SampleMaps
  /\ hm_prev = NoQuery
  /\ hm_last = NoQuery

SampleNext == SampleStep

SampleSpec == SampleInit /\ [][SampleNext]_vars

SelectInit ==
  /\ MeshInit /\ IdxIdle /\ BlIdle /\ QtIdle /\ ShIdle /\ TrIdle /\ LuIdle /\ GoIdle
  /\ tex_ \in TerrainFields
  /\ hm_prev = NoQuery
  /\ hm_last = NoQuery

SelectNext == beginFrameStep \/ selectNode

SelectSpec == SelectInit /\ [][SelectNext]_vars

FrameInit ==
  MeshInit /\ IdxIdle /\ HmIdle /\ BlIdle /\ QtIdle /\ LuIdle /\ GoIdle /\ ShInit /\ TrInit

FrameNext == resize \/ begin \/ push \/ modelCamProjMatStep \/ end \/ TerrainRender

FrameSpec == FrameInit /\ [][FrameNext]_vars

UniformInit ==
  MeshInit /\ IdxIdle /\ HmIdle /\ BlIdle /\ QtIdle /\ ShIdle /\ TrIdle /\ GoIdle /\ LuInit

UniformNext == Link \/ SetStep

UniformSpec == UniformInit /\ [][UniformNext]_vars

ObjectInit ==
  MeshInit /\ IdxIdle /\ HmIdle /\ BlIdle /\ QtIdle /\ ShIdle /\ TrIdle /\ LuIdle /\ GoInit

ObjectNext ==
  \/ enable \/ disable
  \/ shadowRenderAll \/ renderAll \/ render2DAll \/ screenResizedAll
  \/ updateAll
  \/ keyActionAll \/ charTypedAll \/ mouseScrolledAll \/ mouseButtonPressedAll
  \/ mouseMovedAll
  \/ returnFromAll

ObjectSpec == ObjectInit /\ [][ObjectNext]_vars

\* ------------------------------------------------------------------------
\* Properties of the grid mesh (checked under Spec)
\* ------------------------------------------------------------------------

\* setupPositions has run on this mesh (it always stores at least 4 vertices).
IsSetup == positions_ # <<>>

\* dim/2 and the per-sub-quad counts of the mesh as set up.
Dim2 == Half(dimension_)
SubquadVertexCnt == (Dim2 + 1) * (Dim2 + 1)
SubquadIndexCnt == 6 * Dim2 * Dim2

\* Sub-quad q was requested by the last render: 0 = bl, 1 = br, 2 = tl, 3 = tr.
Requested(q) ==
  CASE q = 0 -> req.bl
    [] q = 1 -> req.br
    [] q = 2 -> req.tl
    [] q = 3 -> req.tr

\* The positions of the index buffer that hold sub-quad q's indices.
QuadRange(q) ==
  { e \in 0..(Len(indices_) - 1) :
      /\ subquad_index_start_[q] <= e
      /\ e < (IF q = 3 THEN Len(indices_) ELSE subquad_index_start_[q + 1]) }

\* The positions of the index buffer that a DrawElements call reads.
DrawnRange(d) == d.start..(d.start + d.count - 1)

\* How many of the last render's DrawElements calls read position e.
TimesDrawn(e) == Cardinality({ k \in DOMAIN draws : e \in DrawnRange(draws[k]) })

\* Every position that is in the index buffer or read by a draw call.
AllPositions ==
  (0..(Len(indices_) - 1)) \cup UNION { DrawnRange(draws[k]) : k \in DOMAIN draws }

\* C1: after a render on a mesh that was set up, every position of a
\* requested quadrant's index range is drawn exactly once, and no position
\* outside the requested quadrants' ranges is drawn.
C1_DrawsExactlyRequested ==
  (IsSetup /\ req.rendered) =>
    \A e \in AllPositions :
      TimesDrawn(e) = IF \E q \in 0..3 : Requested(q) /\ e \in QuadRange(q) THEN 1 ELSE 0

\* C2: a render issues at most 2 draw calls, and none when no quadrant is
\* requested.
C2_AtMostTwoDraws ==
  req.rendered =>
    /\ Len(calls) <= 2
    /\ Len(draws) = Len(calls)
    /\ (~req.tl /\ ~req.tr /\ ~req.bl /\ ~req.br) => Len(draws) = 0

\* A render of the sub-quads 0, 1 and 3 was issued with two draw calls.
C2_Witness ==
  /\ req.rendered
  /\ req.bl /\ req.br /\ ~req.tl /\ req.tr
  /\ Len(draws) = 2

\* The number of maximal runs of consecutive requested sub-quads in the
\* index-buffer order 0, 1, 2, 3.
RequestedRuns ==
  Cardinality({ q \in 0..3 : Requested(q) /\ (q = 0 \/ ~Requested(q - 1)) })

\* C3: the number of draw calls of a render equals the number of maximal
\* runs of consecutive requested sub-quads, and each call draws one such
\* run.
C3_MinimalDraws ==
  req.rendered =>
    /\ Len(calls) = RequestedRuns
    /\ \A k \in DOMAIN calls :
         LET n == calls[k][1]
             st == calls[k][2]
         IN  /\ n >= 1
             /\ \A q \in st..(st + n - 1) : q \in 0..3 /\ Requested(q)
             /\ (st = 0 \/ ~Requested(st - 1))
             /\ (st + n = 4 \/ ~Requested(st + n))

\* A render of the two non-adjacent sub-quads 0 (bl) and 2 (tl) was issued
\* with two draw calls.
C3_Witness ==
  /\ req.rendered
  /\ req.bl /\ ~req.br /\ req.tl /\ ~req.tr
  /\ Len(calls) = 2

\* The number of triangles in the index buffer.
TriangleCnt == Len(indices_) \div 3

\* The position of corner c (1..3) of triangle t (0-based), looked up in
\* the vertex buffer through the index buffer.
Corner(t, c) == positions_[indices_[3 * t + c] + 1]

\* Twice the signed area of triangle t.
SignedArea2(t) ==
  LET a == Corner(t, 1)
      b == Corner(t, 2)
      c == Corner(t, 3)
  IN  (b[1] - a[1]) * (c[2] - a[2]) - (b[2] - a[2]) * (c[1] - a[1])

\* C4: after setupPositions, no triangle is degenerate and all triangles
\* of all quadrants have a signed area of the same sign.
C4_ConsistentWinding ==
  IsSetup =>
    \A t1 \in 0..(TriangleCnt - 1), t2 \in 0..(TriangleCnt - 1) :
      /\ SignedArea2(t1) # 0
      /\ (SignedArea2(t1) > 0) = (SignedArea2(t2) > 0)

\* A mesh with at least two cells per quadrant side was set up, so every
\* quadrant holds triangles of both cell halves.
C4_Witness == IsSetup /\ dimension_ >= 4 /\ TriangleCnt = 8 * Dim2 * Dim2

\* C6: after setupPositions(dim) the recorded start of sub-quad q is
\* q*6*(dim/2)^2, the index buffer holds 4*6*(dim/2)^2 indices, and every
\* index in sub-quad q's range refers to a vertex of q's own vertex block.
C6_QuadrantRanges ==
  IsSetup =>
    /\ Len(indices_) = 4 * SubquadIndexCnt
    /\ \A q \in 0..3 :
         /\ subquad_index_start_[q] = q * SubquadIndexCnt
         /\ QuadRange(q) = (q * SubquadIndexCnt)..((q + 1) * SubquadIndexCnt - 1)
         /\ \A e \in QuadRange(q) :
              /\ indices_[e + 1] >= q * SubquadVertexCnt
              /\ indices_[e + 1] < (q + 1) * SubquadVertexCnt

\* A mesh with a non-empty index buffer was set up.
C6_Witness == IsSetup /\ dimension_ >= 2 /\ Len(indices_) = 4 * SubquadIndexCnt

\* C7: after setupPositions(dim) with even dim the vertex buffer holds
\* 4*(dim/2+1)^2 positions, sub-quad q holds (xsign*x, ysign*y) row by row
\* with (ysign, xsign) = (-1,-1), (-1,+1), (+1,-1), (+1,+1), and the distinct
\* positions are exactly the integer grid [-dim/2, dim/2]^2.
C7_VertexLayout ==
  (IsSetup /\ dimension_ % 2 = 0) =>
    /\ Len(positions_) = 4 * SubquadVertexCnt
    /\ \A q \in 0..3, x \in 0..Dim2, y \in 0..Dim2 :
         LET ysign == IF q \in {0, 1} THEN -1 ELSE 1
             xsign == IF q \in {0, 2} THEN -1 ELSE 1
         IN  positions_[q * SubquadVertexCnt + (Dim2 + 1) * y + x + 1]
               = <<xsign * x, ysign * y>>
    /\ { positions_[k] : k \in DOMAIN positions_ }
         = ((0 - Dim2)..Dim2) \X ((0 - Dim2)..Dim2)
    /\ Cardinality({ positions_[k] : k \in DOMAIN positions_ })
         = (dimension_ + 1) * (dimension_ + 1)

\* A mesh of an even dimension of at least 4 was set up.
C7_Witness == IsSetup /\ dimension_ % 2 = 0 /\ dimension_ >= 4

\* C8: a mesh is never built with an odd dimension: when the dimension is
\* odd, setupPositions has stored no vertex and no index.
C8_InvalidDimensionRejected ==
  dimension_ % 2 = 1 => (positions_ = <<>> /\ indices_ = <<>>)

\* ------------------------------------------------------------------------
\* Properties of indexOf (checked under IndexSpec)
\* ------------------------------------------------------------------------

\* The number of the vertex (x, y) of sub-quad q in a vertex buffer of
\* four blocks of (d2+1)^2 vertices, in unbounded arithmetic.
VertexNumber(d2, q, x, y) == q * (d2 + 1) * (d2 + 1) + (d2 + 1) * y + x

\* C5: for every dimension 0..255, the index indexOf returns for a vertex
\* is the vertex's number, not that number modulo 2^16, and is below the
\* vertex count 4*(dim/2+1)^2 and below 2^16.
C5_IndicesFit ==
  idx_out # <<>> =>
    LET d2 == idx_in.dim \div 2
    IN  \A xx \in DOMAIN idx_out :
          /\ idx_out[xx] = VertexNumber(d2, idx_in.sub_quad, xx - 1, idx_in.y)
          /\ idx_out[xx] < 4 * (d2 + 1) * (d2 + 1)
          /\ idx_out[xx] < GLushortRange

\* The last row of the last sub-quad of the largest mesh was indexed, and
\* its last index is the largest GLushort.
C5_Witness ==
  /\ idx_in = [dim |-> GLubyteMax, sub_quad |-> 3, y |-> Half(GLubyteMax)]
  /\ Len(idx_out) = Half(GLubyteMax) + 1
  /\ idx_out[Half(GLubyteMax) + 1] = GLushortRange - 1

\* ------------------------------------------------------------------------
\* Properties of getMinMaxOfArea (checked under HeightSpec)
\* ------------------------------------------------------------------------

\* The integer rectangle between (x-w/2, y-h/2) and (x+w/2, y+h/2) of a call.
RectOf(c) == [x0 |-> c.x - c.w \div 2, x1 |-> c.x + c.w \div 2,
              y0 |-> c.y - c.h \div 2, y1 |-> c.y + c.h \div 2]

\* The rectangle of call a contains the rectangle of call b.
RectContains(a, b) ==
  /\ RectOf(a).x0 <= RectOf(b).x0 /\ RectOf(b).x1 <= RectOf(a).x1
  /\ RectOf(a).y0 <= RectOf(b).y0 /\ RectOf(b).y1 <= RectOf(a).y1

\* The texel coordinates inside the rectangle of call c and inside the
\* height map.
ValidSamples(c) ==
  { p \in (RectOf(c).x0..RectOf(c).x1) \X (RectOf(c).y0..RectOf(c).y1) :
      0 <= p[1] /\ p[1] < tex_.w /\ 0 <= p[2] /\ p[2] < tex_.h }

\* C9 as stated: whenever the rectangle of one call contains the rectangle
\* of another, its min is no larger and its max no smaller, whether or not
\* the rectangles contain a valid sample.
C9_Monotone ==
  (hm_prev.called /\ hm_last.called /\ RectContains(hm_prev, hm_last)) =>
    (hm_prev.min <= hm_last.min /\ hm_prev.max >= hm_last.max)

\* C9 as amended: whenever the rectangle of one call contains the rectangle
\* of another that holds at least one valid sample, its min is no larger and
\* its max no smaller.
C9_MonotoneOnSamples ==
  (/\ hm_prev.called /\ hm_last.called
   /\ RectContains(hm_prev, hm_last)
   /\ ValidSamples(hm_last) # {}) =>
    (hm_prev.min <= hm_last.min /\ hm_prev.max >= hm_last.max)

\* A rectangle and a strictly smaller one inside it, both holding valid
\* samples, were queried, and the outer one has the smaller min and the
\* larger max.
C9_Witness ==
  /\ hm_prev.called /\ hm_last.called
  /\ RectContains(hm_prev, hm_last)
  /\ ~RectContains(hm_last, hm_prev)
  /\ ValidSamples(hm_last) # {}
  /\ hm_prev.min < hm_last.min
  /\ hm_prev.max > hm_prev.min

\* C10 as stated: the result is {0, 0} when the rectangle holds no valid
\* sample, and only then.
C10_ZeroIffOutside ==
  hm_last.called =>
    ((hm_last.min = 0 /\ hm_last.max = 0) <=> ValidSamples(hm_last) = {})

\* C10 as amended: the result is {0, 0} when the rectangle holds no valid
\* sample, and otherwise only when every valid sample in it is 0; a
\* rectangle with valid samples yields their least and greatest value.
C10_ZeroIffNoneOrFlat ==
  hm_last.called =>
    /\ ValidSamples(hm_last) = {} => (hm_last.min = 0 /\ hm_last.max = 0)
    /\ (hm_last.min = 0 /\ hm_last.max = 0) <=>
         \A p \in ValidSamples(hm_last) : tex_.data[p] = 0
    /\ ValidSamples(hm_last) # {} =>
         /\ \E p \in ValidSamples(hm_last) : tex_.data[p] = hm_last.min
         /\ \E p \in ValidSamples(hm_last) : tex_.data[p] = hm_last.max
         /\ \A p \in ValidSamples(hm_last) :
              hm_last.min <= tex_.data[p] /\ tex_.data[p] <= hm_last.max

\* A rectangle entirely outside a height map that has a non-zero texel was
\* queried and gave {0, 0}.
C10_Witness ==
  /\ hm_last.called
  /\ ValidSamples(hm_last) = {}
  /\ \E p \in DOMAIN tex_.data : tex_.data[p] # 0
  /\ hm_last.min = 0 /\ hm_last.max = 0

\* ------------------------------------------------------------------------
\* Properties of the interpolated fetch (checked under SampleSpec)
\* ------------------------------------------------------------------------

\* The difference between the greatest and the least texel of the map.
TexelSpread ==
  LET texels == { tex_.data[p] : p \in DOMAIN tex_.data }
  IN  SetMax(texels) - SetMin(texels)

\* The absolute value of an integer.
Abs(n) == IF n < 0 THEN 0 - n ELSE n

\* Bilinear interpolation at (xn, yn) / SubDiv, times SubDiv * SubDiv, in
\* its textbook form: the cell whose lower corner is (x0, y0), the fractions
\* tx and ty inside it, and the four corners weighted by the products of
\* (1 - tx | tx) and (1 - ty | ty); a corner of weight zero is not read.
Bilinear(xn, yn) ==
  LET x0 == xn \div SubDiv
      y0 == yn \div SubDiv
      tx == xn % SubDiv
      ty == yn % SubDiv
      weight(i, j) == (IF i = 0 THEN SubDiv - tx ELSE tx) *
                      (IF j = 0 THEN SubDiv - ty ELSE ty)
      term(i, j) == IF weight(i, j) = 0 THEN 0
                    ELSE weight(i, j) * tex_.data[<<x0 + i, y0 + j>>]
  IN  term(0, 0) + term(1, 0) + term(0, 1) + term(1, 1)

\* C11: for 0 <= x <= W-1 and 0 <= y <= H-1, heightAt(double x, double y)
\* fetches the texels at (floor x, floor y), (ceil x, floor y),
\* (floor x, ceil y), (ceil x, ceil y), all inside [0,W)x[0,H), and returns
\* their bilinear interpolation; at integer coordinates this is
\* heightAt(int, int); and between two samples one sub-step 1/SubDiv apart
\* the value moves by at most spread/SubDiv, also across an integer
\* coordinate (no jump).
C11_Bilinear ==
  bl_last.called =>
    /\ bl_last.fetches =
         << <<bl_last.xn \div SubDiv, bl_last.yn \div SubDiv>>,
            <<(bl_last.xn + SubDiv - 1) \div SubDiv, bl_last.yn \div SubDiv>>,
            <<bl_last.xn \div SubDiv, (bl_last.yn + SubDiv - 1) \div SubDiv>>,
            <<(bl_last.xn + SubDiv - 1) \div SubDiv,
              (bl_last.yn + SubDiv - 1) \div SubDiv>> >>
    /\ \A k \in 1..4 : valid(bl_last.fetches[k][1], bl_last.fetches[k][2])
    /\ bl_last.val = Bilinear(bl_last.xn, bl_last.yn)
    /\ (bl_last.xn % SubDiv = 0 /\ bl_last.yn % SubDiv = 0) =>
         bl_last.val =
           SubDiv * SubDiv * heightAt(bl_last.xn \div SubDiv, bl_last.yn \div SubDiv)
    /\ bl_prev.called =>
         Abs(bl_last.val - bl_prev.val) <= SubDiv * TexelSpread

\* Two samples on either side of the step onto an interior integer
\* coordinate of a row whose texels differ there.
C11_Witness ==
  /\ bl_prev.called /\ bl_last.called
  /\ w = 3
  /\ bl_prev.xn = SubDiv - 1
  /\ bl_last.xn = SubDiv
  /\ bl_last.val # bl_prev.val
  /\ bl_last.val = SubDiv * SubDiv * heightAt(1, 0)

\* ------------------------------------------------------------------------
\* Properties of the per-frame quadtree walk (checked under SelectSpec)
\* ------------------------------------------------------------------------

\* The walk of the frame has run to its end.
FrameDone == qt_visited # <<>> /\ qt_stack = <<>>

\* The nodes of the quadtree down to the maximum depth.
AllNodes ==
  { n \in [level : 0..MaxLevel, gx : 0..(2 ^ MaxLevel - 1), gy : 0..(2 ^ MaxLevel - 1)] :
      n.gx < 2 ^ n.level /\ n.gy < 2 ^ n.level }

\* Node a lies above node n in the tree.
IsAncestor(a, n) ==
  /\ a.level < n.level
  /\ a.gx = n.gx \div (2 ^ (n.level - a.level))
  /\ a.gy = n.gy \div (2 ^ (n.level - a.level))

\* The positions of qt_visited at which node n was visited, and rendered.
VisitsOf(n) == { k \in DOMAIN qt_visited : qt_visited[k].node = n }
RendersOf(n) == { k \in VisitsOf(n) : qt_visited[k].decision = "render" }

\* The footprint of a node: side baseSize / 2^level, lower corner at
\* (gx, gy) sides from the origin.
Side(n) == baseSize \div (2 ^ n.level)
FootX0(n) == n.gx * Side(n)
FootX1(n) == (n.gx + 1) * Side(n)
FootY0(n) == n.gy * Side(n)
FootY1(n) == (n.gy + 1) * Side(n)

\* The box of node n with vertical extent [lo, hi] has no point in common
\* with the frustum.
BoxMisses(n, lo, hi) ==
  \/ FootX1(n) < qt_in.cx - qt_in.view \/ FootX0(n) > qt_in.cx + qt_in.view
  \/ FootY1(n) < qt_in.cy - qt_in.view \/ FootY0(n) > qt_in.cy + qt_in.view
  \/ hi < qt_in.zlo \/ lo > qt_in.zhi

\* The box of node n with vertical extent [lo, hi] lies inside the frustum.
BoxInside(n, lo, hi) ==
  /\ FootX0(n) >= qt_in.cx - qt_in.view /\ FootX1(n) <= qt_in.cx + qt_in.view
  /\ FootY0(n) >= qt_in.cy - qt_in.view /\ FootY1(n) <= qt_in.cy + qt_in.view
  /\ qt_in.zlo <= lo /\ hi <= qt_in.zhi

\* Node n is within range: all of it within its level's range and, above
\* the maximum depth, none of it within the next finer level's range.
InRange(n) ==
  /\ farthest(n) <= range(n.level)
  /\ n.level = MaxLevel \/ closest(n) > range(n.level + 1)

\* A node whose box misses the frustum is culled.
CulledOutside ==
  \A k \in DOMAIN qt_visited :
    BoxMisses(qt_visited[k].node, qt_visited[k].min, qt_visited[k].max) =>
      qt_visited[k].decision = "cull"

\* The walk visited no node below a culled node.
NothingBelowCulled ==
  \A k \in DOMAIN qt_visited :
    qt_visited[k].decision = "cull" =>
      \A j \in DOMAIN qt_visited : ~IsAncestor(qt_visited[k].node, qt_visited[j].node)

\* No node is rendered twice, and no node is rendered together with a node
\* below it.
NoDoubleDraw ==
  \A k \in DOMAIN qt_visited, j \in DOMAIN qt_visited :
    (qt_visited[k].decision = "render" /\ qt_visited[j].decision = "render" /\ k # j) =>
      /\ qt_visited[k].node # qt_visited[j].node
      /\ ~IsAncestor(qt_visited[k].node, qt_visited[j].node)

\* C12: in one frame's walk a node whose bounding box does not
\* intersect the frustum is never rendered and nothing below it is visited;
\* every node fully inside the frustum and within range is rendered exactly
\* once (required here of well-formed height fields only: not zero-size,
\* not inverted); and nothing is drawn both by a node and by a node below
\* it.
C12_CullAndDrawOnce ==
  /\ CulledOutside
  /\ FrameDone =>
       /\ NothingBelowCulled
       /\ NoDoubleDraw
       /\ (tex_.w > 0 /\ ~qt_in.inverted) =>
            \A n \in AllNodes :
              (InRange(n) /\ BoxInside(n, areaMinMax(n).min, areaMinMax(n).max)) =>
                Cardinality(RendersOf(n)) = 1

\* C13: a node at the maximum configured depth that is not culled is
\* rendered and not recursed into, whatever its distance from the camera;
\* the walk visits and queues no node deeper than the maximum depth; and it
\* terminates: it never takes more steps than the tree has nodes, and a
\* finished walk has visited no node twice.
C13_MaxDepthTerminal ==
  /\ \A k \in DOMAIN qt_visited :
       /\ qt_visited[k].node \in AllNodes
       /\ (qt_visited[k].node.level = MaxLevel /\ qt_visited[k].decision # "cull") =>
            qt_visited[k].decision = "render"
  /\ \A k \in DOMAIN qt_stack : qt_stack[k] \in AllNodes
  /\ Len(qt_visited) <= Cardinality(AllNodes)
  /\ FrameDone =>
       \A k \in DOMAIN qt_visited : VisitsOf(qt_visited[k].node) = {k}

\* A finished walk that rendered one node of the maximum depth within its
\* level's range and another one beyond it.
C13_Witness ==
  /\ FrameDone
  /\ \E k \in DOMAIN qt_visited, j \in DOMAIN qt_visited :
       /\ qt_visited[k].node.level = MaxLevel
       /\ qt_visited[j].node.level = MaxLevel
       /\ qt_visited[k].decision = "render"
       /\ qt_visited[j].decision = "render"
       /\ farthest(qt_visited[k].node) <= range(MaxLevel)
       /\ closest(qt_visited[j].node) > range(MaxLevel)

\* C14: a node whose area query returns the empty sentinel (0,0) or an
\* inverted min > max is culled: it is not rendered, the grid mesh draws
\* nothing for it, and no node below it is visited or queued.
C14_EmptyBoxCulled ==
  \A k \in DOMAIN qt_visited :
    ( \/ qt_visited[k].min = 0 /\ qt_visited[k].max = 0
      \/ qt_visited[k].min > qt_visited[k].max ) =>
      /\ qt_visited[k].decision = "cull"
      /\ \A d \in DOMAIN qt_draws : qt_draws[d].node # qt_visited[k].node
      /\ \A j \in DOMAIN qt_visited :
           ~IsAncestor(qt_visited[k].node, qt_visited[j].node)
      /\ \A j \in DOMAIN qt_stack :
           ~IsAncestor(qt_visited[k].node, qt_stack[j])

\* A finished walk that, below the root, met a node with the sentinel (0,0)
\* whose footprint and whose elevation 0 the frustum contains.
C14_Witness ==
  /\ FrameDone
  /\ \E k \in DOMAIN qt_visited :
       /\ qt_visited[k].node.level > 0
       /\ qt_visited[k].min = 0 /\ qt_visited[k].max = 0
       /\ BoxInside(qt_visited[k].node, 0, 0)
       /\ qt_visited[k].decision = "cull"
  /\ \E k \in DOMAIN qt_visited : qt_visited[k].decision = "render"

\* The frame's camera sees the whole root box and is placed so that the
\* root is within the range of level 0 and no part of it within the range
\* of level 1.
RootOnlyCamera ==
  /\ FrameDone
  /\ BoxInside(Root, qt_visited[1].min, qt_visited[1].max)
  /\ farthest(Root) <= range(0)
  /\ closest(Root) > range(1)

\* The drawSubquad calls of the frame, node after node.
RECURSIVE FrameCallsUpTo(_)
FrameCallsUpTo(k) ==
  IF k = 0 THEN <<>> ELSE FrameCallsUpTo(k - 1) \o qt_draws[k].calls
FrameCalls == FrameCallsUpTo(Len(qt_draws))

\* C15: with a flat height field whose area query always returns
\* (0,0) and a camera for which only the root's range is satisfied, the
\* frame issues exactly one draw call, which covers all 4 quadrants.
C15_FlatZeroOneDraw ==
  (RootOnlyCamera /\ tex_ = FlatField(0) /\ ~qt_in.inverted) =>
    FrameCalls = << <<4, 0>> >>

\* ------------------------------------------------------------------------
\* Properties of Terrain::render and of the Shadow (checked under FrameSpec)
\* ------------------------------------------------------------------------

\* The last operation was a Terrain::render.
Rendered == tr_log # <<>>

\* The texture units of the bind calls and of the unbind calls of the last
\* render, in call order.
UnitsOf(op) ==
  LET IsOp(c) == c.op = op
      sel == SelectSeq(tr_log, IsOp)
  IN  [k \in 1..Len(sel) |-> sel[k].arg]

\* A sequence back to front.
Reverse(seq) == [k \in 1..Len(seq) |-> seq[Len(seq) + 1 - k]]

\* The positions in the last render's log of the calls with this op.
PositionsOf(op) == { k \in DOMAIN tr_log : tr_log[k].op = op }

\* The uniforms the last render assigned.
UniformsSet == { tr_log[k].name : k \in PositionsOf("uniform") }

\* C16: Terrain::render binds the units 2, 3, 4, and 5 when a shadow object
\* exists, before the mesh is rendered, and unbinds the same units in the
\* reverse order after it, so that none of them holds a texture when it
\* returns; without a shadow object it makes no call on unit 5 and assigns
\* none of the shadow uniforms.
C16_BindsUndone ==
  Rendered =>
    /\ UnitsOf("bind") = (IF has_shadow THEN <<2, 3, 4, 5>> ELSE <<2, 3, 4>>)
    /\ UnitsOf("unbind") = Reverse(UnitsOf("bind"))
    /\ \A b \in PositionsOf("bind"), m \in PositionsOf("mesh"), u \in PositionsOf("unbind") :
         b < m /\ m < u
    /\ \A k \in 1..Len(UnitsOf("bind")) : tr_units[UnitsOf("bind")[k]] = "none"
    /\ ~has_shadow =>
         /\ \A k \in DOMAIN tr_log :
              tr_log[k].op \in {"bind", "unbind"} => tr_log[k].arg # 5
         /\ UniformsSet \cap {"uShadowCP", "uNumUsedShadowMaps", "uShadowAtlasSize"} = {}

\* A render with a shadow object holding two cascades' matrices.
C16_Witness ==
  /\ Rendered
  /\ has_shadow
  /\ getDepth = 2
  /\ "uShadowCP" \in UniformsSet
  /\ tr_units = [u \in 2..5 |-> "none"]

\* The state is the one the last Shadow operation started from, in depth,
\* bound framebuffer and recorded matrices.
UnchangedByLast ==
  /\ curr_depth_ = sh_last.depth
  /\ fbo_bound = sh_last.bound
  /\ cp_matrices_ = sh_last.mats

\* C18 as stated: push() called when curr_depth_ + 1 == max_depth_ throws
\* and leaves curr_depth_, the bound framebuffer and the recorded matrices
\* unchanged; called in any other state it increases curr_depth_ by exactly
\* one and binds that cascade's framebuffer.
C18_PushThrowsAtLimit ==
  sh_last.op = "push" =>
    IF sh_last.depth + 1 = max_depth_
    THEN sh_last.threw /\ UnchangedByLast
    ELSE /\ ~sh_last.threw
         /\ curr_depth_ = sh_last.depth + 1
         /\ fbo_bound = curr_depth_
         /\ cp_matrices_ = sh_last.mats

\* C18, amended: push() called when curr_depth_ + 1 >= max_depth_ (the last
\* cascade is current, or the Shadow has no cascade at all) throws and
\* leaves curr_depth_, the bound framebuffer and the recorded matrices
\* unchanged; called in any other state it increases curr_depth_ by exactly
\* one and binds that cascade's framebuffer.
C18_PushThrowsFromLimit ==
  sh_last.op = "push" =>
    IF sh_last.depth + 1 >= max_depth_
    THEN sh_last.threw /\ UnchangedByLast
    ELSE /\ ~sh_last.threw
         /\ curr_depth_ = sh_last.depth + 1
         /\ fbo_bound = curr_depth_
         /\ cp_matrices_ = sh_last.mats

\* A push that threw on the last of at least two cascades, in a frame that
\* had recorded a matrix and had that cascade's framebuffer bound.
C18_Witness ==
  /\ sh_last.op = "push"
  /\ sh_last.threw
  /\ sh_last.depth >= 1
  /\ fbo_bound = sh_last.depth
  /\ \E k \in DOMAIN cp_matrices_ : cp_matrices_[k] # 0

\* The value the last render assigned to uNumUsedShadowMaps, and the
\* elements of uShadowCP it assigned.
NumUsedShadowMaps ==
  LET k == CHOOSE j \in DOMAIN tr_log : tr_log[j].name = "uNumUsedShadowMaps"
  IN  tr_log[k].arg
UploadedSlots == { tr_log[k].idx : k \in { j \in DOMAIN tr_log : tr_log[j].name = "uShadowCP" } }

\* C19: when Terrain::render follows a begin() ... end() on a Shadow with at
\* least one cascade, every slot that modelCamProjMat wrote in between has
\* an index below the getDepth() value the render uploads as
\* uNumUsedShadowMaps, which is also the number of uShadowCP matrices it
\* uploads: every cascade rendered is uploaded.
C19_WrittenSlotsUploaded ==
  (Rendered /\ has_shadow /\ max_depth_ >= 1 /\ ~sh_open) =>
    /\ UploadedSlots = 0..(NumUsedShadowMaps - 1)
    /\ \A i \in sh_written : i < NumUsedShadowMaps

\* C20: for a Shadow constructed with depth >= 1, whatever operations were
\* called, 0 <= curr_depth_ < max_depth_; the element of fbo_ or
\* cp_matrices_ the last operation accessed, and every element of
\* shadowCPs() the last render read, is inside the vector; and no access
\* has killed the process.
C20_DepthInBounds ==
  (has_shadow /\ max_depth_ >= 1) =>
    /\ 0 <= curr_depth_ /\ curr_depth_ < max_depth_
    /\ Len(cp_matrices_) = max_depth_
    /\ sh_last.index # 0 - 1 => (0 <= sh_last.index /\ sh_last.index < max_depth_)
    /\ \A i \in UploadedSlots : 0 <= i /\ i < max_depth_
    /\ ~crashed

\* A push that threw on the last of at least two cascades.
C20_Witness ==
  /\ has_shadow
  /\ max_depth_ >= 2
  /\ curr_depth_ = max_depth_ - 1
  /\ sh_last.op = "push"
  /\ sh_last.threw

\* C21: begin() leaves the cascade depth 0 whatever it was before; k
\* successful push() calls after a begin(), with no other begin() in
\* between, leave getDepth() = k; and end(), resize() and modelCamProjMat()
\* leave the depth they found.
C21_DepthCountsPushes ==
  /\ sh_last.op = "begin" => getDepth = 0
  /\ sh_pushes >= 0 => getDepth = sh_pushes
  /\ (sh_last.op = "push" /\ ~sh_last.threw) => getDepth = sh_last.depth + 1
  /\ sh_last.op \in {"end", "resize", "modelCamProjMat"} => getDepth = sh_last.depth

\* Two pushes after a begin(), then a modelCamProjMat on the third cascade.
C21_Witness ==
  /\ sh_pushes = 2
  /\ getDepth = 2
  /\ sh_last.op = "modelCamProjMat"
  /\ sh_last.depth = 2

\* ------------------------------------------------------------------------
\* Properties of LazyUniform (checked under UniformSpec)
\* ------------------------------------------------------------------------

\* C17: the Set calls of a LazyUniform object query its location
\* (glGetUniformLocation) once, at the first of them; every later Set uses
\* the stored location without a query.
C17_QueryAtFirstSetOnly ==
  \A u \in DOMAIN lu_sets :
    /\ lu_sets[u] = 0 => lu_queries[u] = 0
    /\ lu_sets[u] >= 1 => lu_queries[u] = 1

\* ------------------------------------------------------------------------
\* Properties of the GameObject tree (checked under ObjectSpec)
\* ------------------------------------------------------------------------

\* The dispatchers that call the object's own handler, and the others.
RenderKinds == {"shadowRenderAll", "renderAll", "render2DAll", "screenResizedAll"}
InputKinds ==
  {"keyActionAll", "charTypedAll", "mouseScrolledAll", "mouseButtonPressedAll",
   "mouseMovedAll"}

\* The position of the marker fn of object o's updateSortedComponents in the
\* log, 0 if it has none.
MarkerOf(fn, o) ==
  LET P == { i \in 1..Len(go_log) : go_log[i].fn = fn /\ go_log[i].obj = o
                                    /\ go_log[i].via = "updateSortedComponents" }
  IN  IF P = {} THEN 0 ELSE SetMin(P)

\* The objects whose updateSortedComponents ran to its end in the dispatch
\* in progress.
Updated == { o \in Objects : MarkerOf("clear", o) # 0 }

\* The positions at which c received screenResizedAll while o's
\* updateSortedComponents ran, and those sent by its loop (line 115).
ResizesDuring(o, c) ==
  { i \in 1..Len(go_log) : /\ go_log[i].fn = "screenResizedAll"
                           /\ go_log[i].obj = c
                           /\ MarkerOf("insert", o) < i
                           /\ i < MarkerOf("clear", o) }
ResizesByLoop(o, c) ==
  { i \in ResizesDuring(o, c) : go_log[i].caller = o
                                /\ go_log[i].via = "updateSortedComponents" }

\* The positions at which o's updateAll dispatched to its component c.
UpdatesBy(o, c) ==
  { i \in 1..Len(go_log) : go_log[i].fn = "updateAll" /\ go_log[i].obj = c
                           /\ go_log[i].caller = o }

\* C22 as stated: in an updateAll that returned, for each object whose
\* updateSortedComponents ran, every component that was in
\* components_just_enabled_ received screenResizedAll exactly once while it
\* ran, with the window's size, after the insertion and before updateAll
\* dispatched to it; the object's other components received none.
C22_ResizedExactlyOnce ==
  (go_pass.fn = "updateAll" /\ go_pass.ok) =>
    \A o \in Updated : \A c \in Members(o) :
      IF c \in go_prev.en[o]
      THEN /\ Cardinality(ResizesDuring(o, c)) = 1
           /\ \A i \in ResizesDuring(o, c) :
                /\ go_log[i].arg = window
                /\ \A j \in UpdatesBy(o, c) : i < j
      ELSE ResizesDuring(o, c) = {}

\* C22, amended: the loop of updateSortedComponents sends screenResizedAll
\* exactly once, with the window's size, to every component that was in
\* components_just_enabled_, after the insertion into sorted_components_
\* and before updateAll dispatches to it, and to no other component. When
\* the object itself was not just enabled these are the only
\* screenResizedAll calls its components receive meanwhile; when it was, its
\* own screenResizedAll forwards one more call to every other member of
\* sorted_components_, just enabled or not.
C22_ResizedOnceByLoop ==
  go_pass.fn = "updateAll" =>
    \A o \in Updated : \A c \in Members(o) :
      /\ IF c \in go_prev.en[o]
         THEN /\ Cardinality(ResizesByLoop(o, c)) = 1
              /\ c \in sorted_components_[o]
              /\ \A i \in ResizesByLoop(o, c) :
                   /\ go_log[i].arg = window
                   /\ \A j \in UpdatesBy(o, c) : i < j
         ELSE ResizesByLoop(o, c) = {}
      /\ LET forwarded == ResizesDuring(o, c) \ ResizesByLoop(o, c)
         IN  IF o \in go_prev.en[o] /\ c # o /\ c \in sorted_components_[o]
             THEN /\ Cardinality(forwarded) = 1
                  /\ \A i \in forwarded : go_log[i].caller = o /\ go_log[i].arg = window
             ELSE forwarded = {}

\* An updateAll in which the root and its component were both just enabled:
\* the component received screenResizedAll twice, and updateAll then
\* dispatched to it.
C22_Witness ==
  /\ go_pass.fn = "updateAll"
  /\ go_pass.ok
  /\ RootObject \in Updated
  /\ go_prev.en[RootObject] = {1, 2}
  /\ Cardinality(ResizesDuring(RootObject, 2)) = 2
  /\ UpdatesBy(RootObject, 2) # {}

\* C23: when an object's updateSortedComponents has run, its
\* sorted_components_ is the previous one minus components_just_disabled_,
\* united with components_just_enabled_; both pending sets are empty; and a
\* component that was in both pending sets is in sorted_components_.
C23_SortedAfterUpdate ==
  go_pass.fn = "updateAll" =>
    \A o \in Updated :
      /\ sorted_components_[o]
           = (go_prev.sorted[o] \ go_prev.dis[o]) \cup go_prev.en[o]
      /\ components_just_enabled_[o] = {}
      /\ components_just_disabled_[o] = {}
      /\ \A c \in go_prev.en[o] \cap go_prev.dis[o] : c \in sorted_components_[o]

\* An updateSortedComponents that found a sorted component in both pending
\* sets.
C23_Witness ==
  /\ go_pass.fn = "updateAll"
  /\ \E o \in Updated : \E c \in go_prev.en[o] \cap go_prev.dis[o] :
       /\ c \in go_prev.sorted[o]
       /\ c \in sorted_components_[o]

\* The calls a dispatcher fn of object o makes when every handler returns,
\* from the k-th element of comps on, as <<function, object>> pairs.
RECURSIVE ExpectedFrom(_, _, _, _)
ExpectedFrom(fn, o, comps, k) ==
  IF k > Len(comps) THEN <<>>
  ELSE (IF comps[k] = o
        THEN (IF fn \in RenderKinds THEN << <<handlerOf(fn), o>> >> ELSE <<>>)
        ELSE << <<fn, comps[k]>> >>
             \o ExpectedFrom(fn, comps[k], Order(sorted_components_[comps[k]]), 1))
       \o ExpectedFrom(fn, o, comps, k + 1)

\* The calls of a whole dispatch fn on the root.
Expected(fn) == ExpectedFrom(fn, RootObject, Order(sorted_components_[RootObject]), 1)

\* The calls of the log as <<function, object>> pairs.
Received == [i \in 1..Len(go_log) |-> <<go_log[i].fn, go_log[i].obj>>]

\* The positions of the handler calls that threw.
Thrown(kinds) == { i \in 1..Len(go_log) : go_log[i].out \in kinds }

\* C24 as stated: in a shadowRenderAll, renderAll, render2DAll or
\* screenResizedAll, whatever an object's own handler throws is caught at
\* that object: the dispatch returns and every component of the tree
\* received it, in sorted_components_ order; an object's own handler ran
\* only if the object is in its own sorted_components_.
C24_ThrowCaught ==
  go_pass.fn \in RenderKinds =>
    /\ go_pass.ok
    /\ Received = Expected(go_pass.fn)
    /\ \A i \in 1..Len(go_log) :
         go_log[i].fn = handlerOf(go_pass.fn) =>
           go_log[i].obj \in sorted_components_[go_log[i].obj]

\* C24, amended: a std::exception thrown by an object's own shadowRender,
\* render, render2D or screenResized is caught at that object, and every
\* component of the tree still receives the dispatch, in sorted_components_
\* order; an object's own handler runs only if the object is in its own
\* sorted_components_. Anything else thrown is not caught: it leaves the
\* whole dispatch, and no call follows the handler that threw.
C24_StdExceptionCaught ==
  go_pass.fn \in RenderKinds =>
    /\ \A i \in 1..Len(go_log) :
         go_log[i].fn = handlerOf(go_pass.fn) =>
           go_log[i].obj \in sorted_components_[go_log[i].obj]
    /\ IF Thrown({"other"}) = {}
       THEN /\ go_pass.ok
            /\ Received = Expected(go_pass.fn)
       ELSE /\ ~go_pass.ok
            /\ Thrown({"other"}) = {Len(go_log)}
            /\ Received = SubSeq(Expected(go_pass.fn), 1, Len(go_log))

\* The root's handler threw a std::exception and both objects below it
\* still ran theirs.
C24_Witness ==
  /\ go_pass.fn \in RenderKinds
  /\ go_pass.ok
  /\ Thrown({"std::exception"}) # {}
  /\ \E i \in Thrown({"std::exception"}) :
       /\ go_log[i].obj = RootObject
       /\ \E j, k \in 1..Len(go_log) :
            /\ i < j /\ j < k
            /\ go_log[j].fn = handlerOf(go_pass.fn) /\ go_log[j].obj = 2
            /\ go_log[k].fn = handlerOf(go_pass.fn) /\ go_log[k].obj = 3

\* C25: shadowRenderAll, renderAll, render2DAll, screenResizedAll and the
\* input dispatchers leave sorted_components_ and both pending sets of every
\* object as they found them, and dispatch by sorted_components_ alone,
\* pending entries notwithstanding; an updateAll changes the containers only
\* of the objects whose updateSortedComponents it ran, and dispatches by the
\* sorted_components_ that leaves.
C25_OnlyUpdateChanges ==
  /\ go_pass.fn \in RenderKinds \cup InputKinds =>
       /\ Containers = go_prev
       /\ go_pass.ok => Received = Expected(go_pass.fn)
  /\ go_pass.fn = "updateAll" =>
       /\ \A o \in Objects :
            MarkerOf("erase", o) = 0 =>
              /\ sorted_components_[o] = go_prev.sorted[o]
              /\ components_just_enabled_[o] = go_prev.en[o]
              /\ components_just_disabled_[o] = go_prev.dis[o]
       /\ go_pass.ok =>
            \A o \in Updated : \A c \in Members(o) \ {o} :
              (UpdatesBy(o, c) # {}) <=> (c \in sorted_components_[o])

\* An input dispatch with a pending disable of a sorted component, which
\* still received it, and a pending enable of a component not yet sorted,
\* which did not.
C25_Witness ==
  /\ go_pass.fn \in InputKinds
  /\ 2 \in components_just_disabled_[RootObject] \cap sorted_components_[RootObject]
  /\ 3 \in components_just_enabled_[2] \ sorted_components_[2]
  /\ \E i \in 1..Len(go_log) : go_log[i].obj = 2
  /\ \A i \in 1..Len(go_log) : go_log[i].obj # 3

\* ------------------------------------------------------------------------
\* Properties of GridMesh's draw ranges and cells (checked under Spec)
\* ------------------------------------------------------------------------

\* C26: on a mesh set up with an even dimension, every drawSubquad(n, s)
\* call of a render has s + n <= 4 and an element count of n*6*(dim/2)^2,
\* and the range it draws starts at quadrant s's recorded offset,
\* s*6*(dim/2)^2, and ends inside the index buffer of 24*(dim/2)^2 indices.
C26_DrawsInsideBuffer ==
  (IsSetup /\ req.rendered /\ dimension_ % 2 = 0) =>
    /\ Len(indices_) = 24 * Dim2 * Dim2
    /\ Len(draws) = Len(calls)
    /\ \A k \in DOMAIN calls :
         LET n == calls[k][1]
             s == calls[k][2]
         IN  /\ n >= 1 /\ s >= 0 /\ s + n <= 4
             /\ draws[k].count = n * ((3 * dimension_ * dimension_) \div 2)
             /\ draws[k].count = n * 6 * Dim2 * Dim2
             /\ draws[k].start = subquad_index_start_[s]
             /\ draws[k].start = s * 6 * Dim2 * Dim2
             /\ draws[k].start + draws[k].count <= Len(indices_)

\* A render of br, tl and tr on a mesh of even dimension: drawSubquad(3, 1),
\* whose range ends with the index buffer.
C26_Witness ==
  /\ IsSetup /\ req.rendered
  /\ dimension_ % 2 = 0 /\ dimension_ >= 2
  /\ calls = << <<3, 1>> >>
  /\ draws[1].start + draws[1].count = Len(indices_)

\* The six indices of cell (x, y) of quadrant q in the index buffer, the
\* cells of a quadrant being stored row by row.
CellOf(q, x, y) ==
  [c \in 1..6 |-> indices_[subquad_index_start_[q] + 6 * (Dim2 * y + x) + c]]

\* The corner (cx, cy) of the grid of quadrant q that the vertex numbered v
\* is, as a set (empty when v is no vertex of q).
GridCornerOf(q, v) ==
  { p \in (0..Dim2) \X (0..Dim2) : VertexNumber(Dim2, q, p[1], p[2]) = v }

\* C27: on a mesh set up with an even dimension, every quadrant holds
\* 6*(dim/2)^2 indices, and the six indices of each cell (x, y) are two
\* triangles of three distinct vertices each, which together use exactly
\* the cell's four corners (x,y), (x+1,y), (x,y+1), (x+1,y+1) and have the
\* two ends of one diagonal in common; each triangle has half the area of
\* the cell.
C27_CellsTiled ==
  (IsSetup /\ dimension_ % 2 = 0) =>
    /\ Len(indices_) = 4 * 6 * Dim2 * Dim2
    /\ \A q \in 0..3 :
         /\ Cardinality(QuadRange(q)) = 6 * Dim2 * Dim2
         /\ \A x \in 0..(Dim2 - 1), y \in 0..(Dim2 - 1) :
              LET cell == CellOf(q, x, y)
                  t1 == {cell[1], cell[2], cell[3]}
                  t2 == {cell[4], cell[5], cell[6]}
                  corners == { VertexNumber(Dim2, q, x + dx, y + dy) :
                                 dx \in {0, 1}, dy \in {0, 1} }
                  shared == UNION { GridCornerOf(q, v) : v \in t1 \cap t2 }
                  first == subquad_index_start_[q] + 6 * (Dim2 * y + x)
              IN  /\ Cardinality(t1) = 3 /\ Cardinality(t2) = 3
                  /\ t1 \cup t2 = corners
                  /\ Cardinality(corners) = 4
                  /\ shared \in { {<<x, y>>, <<x + 1, y + 1>>},
                                  {<<x + 1, y>>, <<x, y + 1>>} }
                  /\ first % 3 = 0
                  /\ Abs(SignedArea2(first \div 3)) = 1
                  /\ Abs(SignedArea2(first \div 3 + 1)) = 1

\* A mesh with four cells per quadrant was set up.
C27_Witness ==
  /\ IsSetup
  /\ dimension_ = 4
  /\ Len(indices_) = 96
  /\ CellOf(3, 1, 1) = <<31, 34, 32, 32, 34, 35>>

====
